---------------------------- MODULE Spec2Model ----------------------------
(***************************************************************************)
(* Smallocator admission core: the nonce ledger (generateNonce,            *)
(* validateNonce, storeNonce), the validation pipeline (validateCompact    *)
(* and its stages), the allocated-balance query (getAllocatedBalance) and  *)
(* the admission handler (submitCompact, storeCompact), the readers of the *)
(* compacts table (getCompactByHash, getCompactsByAddress) and the         *)
(* protected routes with their session guard (authenticateRequest,         *)
(* verifySession), and the creation of a session from a signed payload     *)
(* (validateAndCreateSession).                                             *)
(*                                                                         *)
(* Widths are scaled.  The nonce_low column is a signed 32-bit integer:    *)
(* stored values lie in 0..2147483647 and the combined order multiplies    *)
(* nonce_high by 2^32.  Here the largest stored low is MaxLow and the      *)
(* multiplier is LowBase = 2*(MaxLow+1), so that, as in the source, a low  *)
(* fragment can exceed the column range and the multiplier is twice the    *)
(* column range.  The same holds for nonce_high with MaxHigh and HighBase. *)
(* A 256-bit nonce is sponsor*FragBase + high*LowBase + low.               *)
(***************************************************************************)
EXTENDS Integers, Sequences, FiniteSets, Bags, TLC

VARIABLES nonces, compacts, now, indexer, config, sessionRequests, creating, pc, req, last, sessions, http

vars == <<nonces, compacts, now, indexer, config, sessionRequests, creating, pc, req, last, sessions, http>>

-----------------------------------------------------------------------------
(* Bounds of the model *)

\* largest value the nonce_low column holds (2147483647 in the source)
MaxLow == 3
\* largest value the nonce_high column holds
MaxHigh == 1
\* rows the nonce ledger holds at most
MaxRows == 5
\* records the compact store holds at most
MaxCompacts == 2
\* concurrent request handlers
NumProcs == 2
\* times the clock advances at most
MaxTicks == 1

LowBase == 2 * (MaxLow + 1)
HighBase == 2 * (MaxHigh + 1)
FragBase == HighBase * LowBase

Null == "null"
\* a null nonce (nonce: bigint | null) and a missing allocatorId
NoNonce == 0 - 1
NoAllocatorId == 0 - 1

-----------------------------------------------------------------------------
(* Addresses: who is the 20 bytes, form the casing of the hex string *)

\* the 20-byte values in use; the value 0 is the zero address
Sponsors == {1, 2}
Address == [who : Sponsors, form : {"checksum", "lower"}]

Addr(w, f) == [who |-> w, form |-> f]
NoAddress == [who |-> 0, form |-> "none"]

\* viem getAddress: the EIP-55 checksummed form of the same 20 bytes
getAddress(a) == [who |-> a.who, form |-> "checksum"]

\* getAddress(a).toLowerCase()
toLowerCase(a) == [who |-> a.who, form |-> "lower"]

\* hexToBytes / Buffer.from(hex): the 20 bytes, whatever the casing
addressToBytes(a) == a.who

-----------------------------------------------------------------------------
(* Nonce packing *)

\* sponsorPart | (high << 32) | low
PackNonce(sponsorBytes, high, low) == sponsorBytes * FragBase + high * LowBase + low

\* nonceHex.slice(0, 40)
NonceSponsorPart(nonce) == nonce \div FragBase
\* nonceHex.slice(40)
NonceFragment(nonce) == nonce % FragBase
\* Number(fragmentBigInt & 0xffffffff)
NonceLow(nonce) == NonceFragment(nonce) % LowBase
\* mutant: the fragment is not shifted down by the width of the low part
NonceHigh_NoShift(nonce) == NonceFragment(nonce)

\* Number(fragmentBigInt >> 32)
NonceHigh(nonce) == NonceFragment(nonce) \div LowBase

-----------------------------------------------------------------------------
(* The nonces table.  A bag of rows: the id column is a fresh UUID, so two *)
(* rows can differ in nothing else.                                        *)

NonceRow(chainId, sponsorBytes, high, low) ==
    [chainId |-> chainId, sponsor |-> sponsorBytes, high |-> high, low |-> low]

\* the integer and bigint columns reject values outside their range
ColumnsInRange(high, low) == high <= MaxHigh /\ low <= MaxLow

\* mutant: the table has no uniqueness constraint
NonceUniqueOk_Absent(table, row) == TRUE

\* UNIQUE (chain_id, sponsor, nonce_high, nonce_low)
NonceUniqueOk(table, row) == ~BagIn(row, table)

\* rows of one (chain_id, sponsor), as (high, low) pairs
LedgerRows(table, chainId, sponsorBytes) ==
    {<<r.high, r.low>> : r \in
        {x \in BagToSet(table) : x.chainId = chainId /\ x.sponsor = sponsorBytes}}

-----------------------------------------------------------------------------
(* generateNonce: the windowed gap query *)

\* (nonce_high * 2^32) + nonce_low
Combined(t) == t[1] * LowBase + t[2]

\* LEAD(nonce_high), LEAD(nonce_low) OVER (ORDER BY combined): the next row, or Null
LeadRow(rows, t) ==
    LET later == {u \in rows : Combined(u) > Combined(t)}
    IN  IF later = {} THEN Null
        ELSE CHOOSE u \in later : \A v \in later : Combined(u) <= Combined(v)

\* gap_high, gap_low: the CASE of the gaps CTE
GapOf(t) == IF t[2] = MaxLow THEN <<t[1] + 1, 0>> ELSE <<t[1], t[2] + 1>>

\* mutant: >= in place of > in the gap test
IsGapRow_Ge(rows, t) ==
    LET n == LeadRow(rows, t)
    IN  n = Null \/ Combined(n) >= Combined(t) + 1

\* the WHERE of the gaps CTE: next IS NULL OR combined(next) > combined(row) + 1
IsGapRow(rows, t) ==
    LET n == LeadRow(rows, t)
    IN  n = Null \/ Combined(n) > Combined(t) + 1

\* the gaps CTE: gap rows' successors UNION ALL (0,0) when it is not stored
Gaps(rows) ==
    {GapOf(t) : t \in {u \in rows : IsGapRow(rows, u)}}
        \cup (IF <<0, 0>> \in rows THEN {} ELSE {<<0, 0>>})

\* ORDER BY combined LIMIT 1
FirstGap(gaps) == CHOOSE g \in gaps : \A h \in gaps : Combined(g) <= Combined(h)

MaxOf(S) == CHOOSE x \in S : \A y \in S : y <= x

\* the COALESCE: first gap, else the value after the maxima, else (0,0)
NextNonceTuple(rows) ==
    IF Gaps(rows) # {} THEN FirstGap(Gaps(rows))
    ELSE IF rows # {}
         THEN LET mh == MaxOf({t[1] : t \in rows})
                  ml == MaxOf({t[2] : t \in rows})
              IN  IF ml < MaxLow THEN <<mh, ml + 1>> ELSE <<mh + 1, 0>>
         ELSE <<0, 0>>

\* generateNonce(sponsor, chainId, db)
generateNonce(table, sponsor, chainId) ==
    LET sponsorBytes == addressToBytes(toLowerCase(getAddress(sponsor)))
        t == NextNonceTuple(LedgerRows(table, chainId, sponsorBytes))
    IN  PackNonce(sponsorBytes, t[1], t[2])

-----------------------------------------------------------------------------
(* validateNonce *)

Valid == [isValid |-> TRUE, error |-> Null]
NoValidation == [isValid |-> FALSE, error |-> "pending"]
Invalid(e) == [isValid |-> FALSE, error |-> e]

\* mutant: the count is taken over the rows of every chain
NonceCount_AnyChain(table, chainId, sponsorBytes, high, low) == Cardinality({r \in BagToSet(table) : r.sponsor = sponsorBytes /\ r.high = high /\ r.low = low})

\* SELECT COUNT(*) ... WHERE chain_id, sponsor, nonce_high, nonce_low match
NonceCount(table, chainId, sponsorBytes, high, low) ==
    CopiesIn(NonceRow(chainId, sponsorBytes, high, low), table)

\* mutant: the sponsor part of the nonce is not compared with the sponsor
validateNonce_NoSponsorCheck(table, nonce, sponsor, chainId) ==
    IF ~ColumnsInRange(NonceHigh(nonce), NonceLow(nonce))
    THEN Invalid("Nonce validation error")
    ELSE IF NonceCount(table, chainId, addressToBytes(sponsor),
                       NonceHigh(nonce), NonceLow(nonce)) > 0
    THEN Invalid("Nonce has already been used")
    ELSE Valid

\* validateNonce(nonce, sponsor, chainId, db)
validateNonce(table, nonce, sponsor, chainId) ==
    IF NonceSponsorPart(nonce) # addressToBytes(toLowerCase(getAddress(sponsor)))
    THEN Invalid("Nonce does not match sponsor address")
    ELSE IF ~ColumnsInRange(NonceHigh(nonce), NonceLow(nonce))
    THEN Invalid("Nonce validation error")
    ELSE IF NonceCount(table, chainId, addressToBytes(sponsor),
                       NonceHigh(nonce), NonceLow(nonce)) > 0
    THEN Invalid("Nonce has already been used")
    ELSE Valid

-----------------------------------------------------------------------------
(* Calls of the exported nonce functions *)

Call(op, nonce, sponsor, chainId, result) ==
    [op |-> op, nonce |-> nonce, sponsor |-> sponsor, chainId |-> chainId,
     result |-> result]

\* what a call gave: a nonce, a validation result, or an exception
Returned(nonce, v) == [threw |-> FALSE, nonce |-> nonce, validation |-> v]
Threw == [threw |-> TRUE, nonce |-> NoNonce, validation |-> NoValidation]

NoCall == Call("none", NoNonce, NoAddress, Null, Returned(NoNonce, NoValidation))

\* storeNonce(nonce, chainId, db): the INSERT, which throws on a constraint
StoreNonce(nonce, chainId) ==
    LET row == NonceRow(chainId, NonceSponsorPart(nonce),
                        NonceHigh(nonce), NonceLow(nonce))
    IN  /\ BagCardinality(nonces) < MaxRows
        /\ IF ColumnsInRange(row.high, row.low) /\ NonceUniqueOk(nonces, row)
           THEN /\ nonces' = nonces (+) SetToBag({row})
                /\ last' = Call("storeNonce", nonce, NoAddress, chainId,
                                Returned(NoNonce, NoValidation))
           ELSE /\ nonces' = nonces
                /\ last' = Call("storeNonce", nonce, NoAddress, chainId, Threw)
        /\ UNCHANGED <<compacts, now, indexer, config, sessionRequests, creating, pc, req, sessions, http>>

GenerateNonce(sponsor, chainId) ==
    /\ last' = Call("generateNonce", NoNonce, sponsor, chainId,
                    Returned(generateNonce(nonces, sponsor, chainId), NoValidation))
    /\ UNCHANGED <<nonces, compacts, now, indexer, config, sessionRequests, creating, pc, req, sessions, http>>

ValidateNonce(nonce, sponsor, chainId) ==
    /\ last' = Call("validateNonce", nonce, sponsor, chainId,
                    Returned(NoNonce, validateNonce(nonces, nonce, sponsor, chainId)))
    /\ UNCHANGED <<nonces, compacts, now, indexer, config, sessionRequests, creating, pc, req, sessions, http>>

-----------------------------------------------------------------------------
(* Compact id layout (scaled): lock bits, then the allocator id, then the  *)
(* reset period index.  LockBase stands for 2^160, AllocBase for 2^92.     *)

LockBase == 2
AllocBase == 4

\* the bit above the reset period index (stands for 2^255)
ScopeBase == 8 * AllocBase * LockBase

PackId(resetPeriodIndex, allocatorId, lock) ==
    (resetPeriodIndex * AllocBase + allocatorId) * LockBase + lock

\* mutant: the bits above the allocator id are not masked off
IdAllocatorId_NoMask(id) == id \div LockBase

\* (compact.id >> 160) & ((1 << 92) - 1)
IdAllocatorId(id) == (id \div LockBase) % AllocBase

\* mutant: the index is taken one bit higher
IdResetPeriodIndex_TopBits(id) == (id \div (LockBase * AllocBase * 2)) % 8

\* Number((id >> 252) & 0x7)
IdResetPeriodIndex(id) == (id \div (LockBase * AllocBase)) % 8

resetPeriods == <<1, 15, 60, 600, 3900, 86400, 612000, 2592000>>

\* getFinalizationThreshold(chainId), seconds
getFinalizationThreshold(chainId) == IF chainId = "1" THEN 25 ELSE 10

-----------------------------------------------------------------------------
(* Claim hash and signature *)

NoHash == [schema |-> "none"]
ThrownHash == [schema |-> "throw"]
NoSignature == [scheme |-> "none", raw |-> NoHash]

\* hashTypedData: the digest stands for the typed data it is computed from.
\* Encoding a null nonce as uint256 raises (BigInt(null)).
generateClaimHash(compact, chainId) ==
    IF compact.nonce = NoNonce THEN ThrownHash
    ELSE IF compact.witnessTypeString \in {Null, ""} \/ compact.witnessHash \in {Null, ""}
    THEN [schema |-> "Compact", chainId |-> chainId,
          arbiter |-> getAddress(compact.arbiter),
          sponsor |-> getAddress(compact.sponsor),
          nonce |-> compact.nonce, expires |-> compact.expires,
          id |-> compact.id, amount |-> compact.amount,
          witnessTypeString |-> Null, witnessHash |-> Null]
    ELSE [schema |-> "CompactWithWitness", chainId |-> chainId,
          arbiter |-> getAddress(compact.arbiter),
          sponsor |-> getAddress(compact.sponsor),
          nonce |-> compact.nonce, expires |-> compact.expires,
          id |-> compact.id, amount |-> compact.amount,
          witnessTypeString |-> compact.witnessTypeString,
          witnessHash |-> compact.witnessHash]

\* walletClient.signMessage({ message: { raw: hash } }): a personal-message
\* signature over the hash bytes; the chain id is not used
signCompact(hash, chainId) == [scheme |-> "signMessage", raw |-> hash]

\* What a signature of the given scheme is computed over: signMessage signs
\* the digest of the personal-message prefix followed by the raw bytes.
SignedBytes(signature) ==
    IF signature.scheme = "signMessage"
    THEN [schema |-> "personal message", prefix |-> "Ethereum Signed Message",
          length |-> 32, raw |-> signature.raw]
    ELSE signature.raw

-----------------------------------------------------------------------------
(* The compacts table *)

CompactRecord(chainId, compact, hash, signature, createdAt) ==
    [chainId |-> chainId, compact |-> compact, hash |-> hash,
     signature |-> signature, createdAt |-> createdAt]

Range(f) == {f[i] : i \in DOMAIN f}

\* mutant: the table has no unique constraint
CompactUniqueOk_None(table, chainId, hash) == TRUE

\* UNIQUE (chain_id, hash)
CompactUniqueOk(table, chainId, hash) ==
    \A r \in Range(table) : ~(r.chainId = chainId /\ r.hash = hash)

\* mutant: the chain id is not part of the key
getCompactByHash_AnyChain(table, chainId, claimHash) ==
    LET hits == SelectSeq(table, LAMBDA r : r.hash = claimHash)
    IN  IF hits = <<>> THEN <<>> ELSE <<hits[1]>>

\* SELECT ... WHERE chain_id = $1 AND hash = $2, then rows[0] || null: the
\* result is the sequence of no row or one row
getCompactByHash(table, chainId, claimHash) ==
    LET hits == SelectSeq(table, LAMBDA r : r.chainId = chainId /\ r.hash = claimHash)
    IN  IF hits = <<>> THEN <<>> ELSE <<hits[1]>>

Orderings(q) ==
    {[i \in DOMAIN q |-> q[f[i]]] :
        f \in {g \in [DOMAIN q -> DOMAIN q] :
                  \A a, b \in DOMAIN q : a # b => g[a] # g[b]}}

\* mutant: the query has no ORDER BY
getCompactsByAddress_Unordered(table, address) ==
    Orderings(SelectSeq(table, LAMBDA r : r.compact.sponsor = getAddress(address)))

\* SELECT ... WHERE compact->>'sponsor' = getAddress(address) ORDER BY
\* created_at DESC: the sponsor text of the stored JSON is compared with the
\* checksummed address; rows of equal created_at come in any order, so the
\* query has a set of possible results
getCompactsByAddress(table, address) ==
    LET hits == SelectSeq(table, LAMBDA r : r.compact.sponsor = getAddress(address))
    IN  {q \in Orderings(hits) :
            \A i, j \in DOMAIN q : i < j => q[i].createdAt >= q[j].createdAt}

\* the columns getAllocatedBalance filters on, read off the stored record
RowMatches(r, sponsor, chainId, lockId) ==
    /\ addressToBytes(r.compact.sponsor) = addressToBytes(sponsor)
    /\ r.chainId = chainId
    /\ r.compact.id = lockId

RECURSIVE SumAmounts(_, _)
SumAmounts(table, keep) ==
    IF keep = {} THEN 0
    ELSE LET i == CHOOSE x \in keep : TRUE
         IN  table[i].compact.amount + SumAmounts(table, keep \ {i})

\* mutant: the processed claims are not filtered out
getAllocatedBalance_AllClaims(table, clock, sponsor, chainId, lockId, processedClaimHashes) ==
    SumAmounts(table,
        {i \in DOMAIN table :
            /\ RowMatches(table[i], sponsor, chainId, lockId)
            /\ clock < table[i].compact.expires + getFinalizationThreshold(chainId)})

\* getAllocatedBalance(db, sponsor, chainId, lockId, processedClaimHashes)
getAllocatedBalance(table, clock, sponsor, chainId, lockId, processedClaimHashes) ==
    SumAmounts(table,
        {i \in DOMAIN table :
            /\ RowMatches(table[i], sponsor, chainId, lockId)
            /\ clock < table[i].compact.expires + getFinalizationThreshold(chainId)
            /\ table[i].hash \notin processedClaimHashes})

-----------------------------------------------------------------------------
(* Validation stages *)

\* parseInt(chainId) and Number.prototype.toString on the chain ids in use
parseInt(str) ==
    CASE str = "1" -> [isNaN |-> FALSE, n |-> 1]
      [] str = "10" -> [isNaN |-> FALSE, n |-> 10]
      [] str = "01" -> [isNaN |-> FALSE, n |-> 1]
      [] str = "0" -> [isNaN |-> FALSE, n |-> 0]
      [] OTHER -> [isNaN |-> TRUE, n |-> 0]

toString(n) ==
    CASE n = 1 -> "1"
      [] n = 10 -> "10"
      [] n = 0 -> "0"
      [] OTHER -> "NaN"

\* isNaN(chainIdNum) || chainIdNum <= 0 || chainIdNum.toString() !== chainId
ChainIdInvalid(chainId) ==
    LET chainIdNum == parseInt(chainId)
    IN  \/ chainIdNum.isNaN
        \/ chainIdNum.n <= 0
        \/ toString(chainIdNum.n) # chainId

\* mutant: a witness type string without a witness hash passes
validateStructure_TypeWithoutHash(compact) ==
    IF compact.arbiter.form = "malformed" \/ compact.sponsor.form = "malformed"
    THEN Invalid("Invalid arbiter address")
    ELSE IF compact.expires <= 0 THEN Invalid("Invalid expires timestamp")
    ELSE IF compact.id <= 0 THEN Invalid("Invalid id")
    ELSE IF compact.amount \notin Nat THEN Invalid("Invalid amount format")
    ELSE IF compact.witnessTypeString = Null /\ compact.witnessHash # Null
    THEN Invalid("Witness type and hash must both be present or both be null")
    ELSE Valid

\* validateStructure(compact)
validateStructure(compact) ==
    IF compact.arbiter.form = "malformed" \/ compact.sponsor.form = "malformed"
    THEN Invalid("Invalid arbiter address")
    ELSE IF compact.expires <= 0 THEN Invalid("Invalid expires timestamp")
    ELSE IF compact.id <= 0 THEN Invalid("Invalid id")
    ELSE IF compact.amount \notin Nat THEN Invalid("Invalid amount format")
    ELSE IF \/ (compact.witnessTypeString = Null /\ compact.witnessHash # Null)
            \/ (compact.witnessTypeString # Null /\ compact.witnessHash = Null)
    THEN Invalid("Witness type and hash must both be present or both be null")
    ELSE Valid

\* mutant: the two-hour bound excludes its end point
validateExpiration_Ge(expires, clock) ==
    IF expires <= clock THEN Invalid("Compact has expired")
    ELSE IF expires >= clock + 7200 THEN Invalid("Expiration must be within 2 hours")
    ELSE Valid

\* validateExpiration(expires), reading the clock
validateExpiration(expires, clock) ==
    IF expires <= clock THEN Invalid("Compact has expired")
    ELSE IF expires > clock + 7200 THEN Invalid("Expiration must be within 2 hours")
    ELSE Valid

\* mutant: the reset period is not looked up by the index of the id
validateDomainAndId_AnyPeriod(id, expires, chainId, nodeEnv, clock) ==
    IF id <= 0 THEN Invalid("Invalid ID: must be positive")
    ELSE IF ChainIdInvalid(chainId) THEN Invalid("Invalid chain ID format")
    ELSE IF nodeEnv = "test" /\ id = 1 THEN Valid
    ELSE IF clock + resetPeriods[8] < expires
    THEN Invalid("Reset period would allow forced withdrawal before expiration")
    ELSE Valid

\* validateDomainAndId(id, expires, chainId, allocatorAddress), reading the clock
validateDomainAndId(id, expires, chainId, nodeEnv, clock) ==
    IF id <= 0 THEN Invalid("Invalid ID: must be positive")
    ELSE IF ChainIdInvalid(chainId) THEN Invalid("Invalid chain ID format")
    ELSE IF nodeEnv = "test" /\ id = 1 THEN Valid
    ELSE IF clock + resetPeriods[IdResetPeriodIndex(id) + 1] < expires
    THEN Invalid("Reset period would allow forced withdrawal before expiration")
    ELSE Valid

RECURSIVE SumSeq(_)
SumSeq(q) == IF q = <<>> THEN 0 ELSE Head(q) + SumSeq(Tail(q))

\* mutant: the withdrawal status is not looked at
CheckResponse_NoWithdrawalCheck(compact, response) ==
    IF ~response.resourceLock THEN Invalid("Resource lock not found")
    ELSE IF response.allocatorId = NoAllocatorId
            \/ response.allocatorId # IdAllocatorId(compact.id)
    THEN Invalid("Invalid allocator ID")
    ELSE Valid

\* validateAllocation up to the allocated-balance query: the checks on the
\* indexer response
CheckResponse(compact, response) ==
    IF ~response.resourceLock THEN Invalid("Resource lock not found")
    ELSE IF response.withdrawalStatus # 0
    THEN Invalid("Resource lock has forced withdrawals enabled")
    ELSE IF response.allocatorId = NoAllocatorId
            \/ response.allocatorId # IdAllocatorId(compact.id)
    THEN Invalid("Invalid allocator ID")
    ELSE Valid

\* mutant: the pending deltas are added to the balance
AllocatableBalance_Added(response) ==
    LET pendingBalance == SumSeq(response.accountDeltas)
    IN  IF response.balance > pendingBalance
        THEN response.balance + pendingBalance ELSE 0

\* resourceLockBalance > pendingBalance ? resourceLockBalance - pendingBalance : 0
AllocatableBalance(response) ==
    LET pendingBalance == SumSeq(response.accountDeltas)
    IN  IF response.balance > pendingBalance
        THEN response.balance - pendingBalance ELSE 0

-----------------------------------------------------------------------------
(* submitCompact: one request handler per process, one step per await *)

Procs == 1..NumProcs

NoResult == [ok |-> FALSE, error |-> Null, hash |-> NoHash, signature |-> NoSignature]
Failure(e) == [ok |-> FALSE, error |-> e, hash |-> NoHash, signature |-> NoSignature]
Success(h, sig) == [ok |-> TRUE, error |-> Null, hash |-> h, signature |-> sig]

NoSubmission == [chainId |-> Null]

\* the Date.now() readings of one request: at entry, in validateExpiration and
\* validateDomainAndId, and in getAllocatedBalance (0: not read)
NoClocks == [start |-> 0, stages |-> 0, balance |-> 0]

\* the stage of validateCompact the request has entered
Ran(r, stage) == [r EXCEPT !.stages = Append(@, stage)]

IdleReq ==
    [submission |-> NoSubmission, session |-> NoAddress, validation |-> NoValidation,
     claims |-> {}, allocatable |-> 0, hash |-> NoHash, signature |-> NoSignature,
     result |-> NoResult, overlap |-> {}, nonceAdmitted |-> FALSE, passes |-> 0,
     stages |-> <<>>, clocks |-> NoClocks, singleClock |-> TRUE,
     have |-> 0, need |-> 0]

\* an HTTP exchange on a protected route: the request (route, x-session-id
\* header, body or path parameters), how far it has come, what verifySession
\* gave ("returned true" or the error it threw), and the reply
NoExchange ==
    [route |-> "none", sessionId |-> "", body |-> NoSubmission,
     chainId |-> "", claimHash |-> NoHash, phase |-> "idle",
     sessionWas |-> "unchecked", verified |-> "not called", status |-> 0,
     error |-> "", by |-> "none",
     result |-> NoResult, rows |-> <<>>]

InFlight(p) == pc[p] \notin {"idle", "done"}

\* the handler leaves with an error
Throw(p, r, e) ==
    /\ pc' = [pc EXCEPT ![p] = "done"]
    /\ req' = [req EXCEPT ![p] =
                  [r EXCEPT !.result = Failure(e),
                            !.hash = NoHash, !.signature = NoSignature]]

\* validateCompact returned { isValid: false }
Reject(p, r, v) ==
    Throw(p, [r EXCEPT !.validation = v], v.error)

Goto(p, r, label) ==
    /\ pc' = [pc EXCEPT ![p] = label]
    /\ req' = [req EXCEPT ![p] = r]

\* mutant: the domain stage runs before the expiration stage
ExpirationAndDomain_DomainFirst(p, r) ==
    LET c == r.submission.compact
        expirationResult == validateExpiration(c.expires, now)
        domainResult == validateDomainAndId(c.id, c.expires, r.submission.chainId,
                                            config.nodeEnv, now)
        r4 == [Ran(r, "domain") EXCEPT !.clocks.stages = now]
        r5 == Ran(r4, "expiration")
    IN  IF ~domainResult.isValid THEN Reject(p, r4, domainResult)
        ELSE IF ~expirationResult.isValid THEN Reject(p, r5, expirationResult)
        ELSE Goto(p, r5, "indexer")

\* stages 4 and 5 of validateCompact, then on to the indexer query
ExpirationAndDomain(p, r) ==
    LET c == r.submission.compact
        expirationResult == validateExpiration(c.expires, now)
        domainResult == validateDomainAndId(c.id, c.expires, r.submission.chainId,
                                            config.nodeEnv, now)
        r4 == [Ran(r, "expiration") EXCEPT !.clocks.stages = now]
        r5 == Ran(r4, "domain")
    IN  IF ~expirationResult.isValid THEN Reject(p, r4, expirationResult)
        ELSE IF ~domainResult.isValid THEN Reject(p, r5, domainResult)
        ELSE Goto(p, r5, "indexer")

\* stages 1 and 2 of validateCompact, up to the nonce query
ValidateCompactStart(p, r) ==
    LET c == r.submission.compact
        r1 == Ran([r EXCEPT !.passes = @ + 1], "chainId")
        r2 == Ran(r1, "structure")
    IN  IF ChainIdInvalid(r.submission.chainId)
        THEN Reject(p, r1, Invalid("Invalid chain ID format"))
        ELSE IF ~validateStructure(c).isValid THEN Reject(p, r2, validateStructure(c))
        ELSE IF c.nonce # NoNonce THEN Goto(p, r2, "nonce")
        ELSE ExpirationAndDomain(p, r2)

\* mutant: the sponsor is not compared with the session address
Submit_NoSessionCheck(p, submission, sponsorAddress) ==
    LET r == [IdleReq EXCEPT
                !.submission = submission,
                !.session = sponsorAddress,
                !.clocks.start = now]
    IN  /\ pc[p] = "idle"
        /\ Len(compacts) + Cardinality({q \in Procs : InFlight(q)}) < MaxCompacts
        /\ ValidateCompactStart(p, r)
        /\ UNCHANGED <<nonces, compacts, now, indexer, config, sessionRequests, creating, last, sessions, http>>

\* submitCompact(server, submission, sponsorAddress): entry
Submit(p, submission, sponsorAddress) ==
    LET r == [IdleReq EXCEPT
                !.submission = submission,
                !.session = sponsorAddress,
                !.clocks.start = now,
                !.overlap = {q \in Procs : InFlight(q)},
                !.nonceAdmitted =
                    \E i \in DOMAIN compacts :
                        /\ compacts[i].chainId = submission.chainId
                        /\ addressToBytes(compacts[i].compact.sponsor)
                             = addressToBytes(submission.compact.sponsor)
                        /\ compacts[i].compact.nonce = submission.compact.nonce]
    IN  /\ pc[p] = "idle"
        /\ Len(compacts) + Cardinality({q \in Procs : InFlight(q)}) < MaxCompacts
        /\ IF getAddress(submission.compact.sponsor) # getAddress(sponsorAddress)
           THEN Throw(p, r, "Sponsor address does not match session")
           ELSE ValidateCompactStart(p, r)
        /\ UNCHANGED <<nonces, compacts, now, indexer, config, sessionRequests, creating, last, sessions, http>>

\* mutant: the nonce stage writes the nonce it has validated
NonceStep_Stores(p) ==
    LET r == Ran(req[p], "nonce")
        c == r.submission.compact
        nonceResult == validateNonce(nonces, c.nonce, c.sponsor, r.submission.chainId)
    IN  /\ pc[p] = "nonce"
        /\ IF ~nonceResult.isValid
           THEN Reject(p, r, nonceResult) /\ nonces' = nonces
           ELSE /\ ExpirationAndDomain(p, r)
                /\ nonces' = nonces (+) SetToBag({NonceRow(r.submission.chainId,
                                 NonceSponsorPart(c.nonce), NonceHigh(c.nonce),
                                 NonceLow(c.nonce))})
        /\ UNCHANGED <<compacts, now, indexer, config, sessionRequests, creating, last, sessions, http>>

\* stage 3: await validateNonce(...)
NonceStep(p) ==
    LET r == Ran(req[p], "nonce")
        c == r.submission.compact
        nonceResult == validateNonce(nonces, c.nonce, c.sponsor, r.submission.chainId)
    IN  /\ pc[p] = "nonce"
        /\ IF ~nonceResult.isValid THEN Reject(p, r, nonceResult)
           ELSE ExpirationAndDomain(p, r)
        /\ UNCHANGED <<nonces, compacts, now, indexer, config, sessionRequests, creating, last, sessions, http>>

\* stage 6, first await: getCompactDetails and the checks on its response;
\* a request to the indexer that fails raises inside validateAllocation,
\* whose catch block returns the error as a validation result
IndexerStep(p) ==
    LET r == Ran(req[p], "indexer")
        c == r.submission.compact
        responseResult == CheckResponse(c, indexer)
    IN  /\ pc[p] = "indexer"
        /\ IF ~indexer.reachable
           THEN Reject(p, r, Invalid("Allocation validation error: fetch failed"))
           ELSE IF ~responseResult.isValid THEN Reject(p, r, responseResult)
           ELSE Goto(p, [r EXCEPT !.allocatable = AllocatableBalance(indexer),
                                  !.claims = indexer.claims], "allocated")
        /\ UNCHANGED <<nonces, compacts, now, indexer, config, sessionRequests, creating, last, sessions, http>>

\* mutant: the two numbers of the message change places
InsufficientBalance_Swapped(allocatableBalance, totalNeededBalance) ==
    [have |-> totalNeededBalance, need |-> allocatableBalance]

\* `Insufficient allocatable balance (have ${allocatableBalance}, need
\* ${totalNeededBalance})`: the two numbers of the message
InsufficientBalance(allocatableBalance, totalNeededBalance) ==
    [have |-> allocatableBalance, need |-> totalNeededBalance]

\* mutant: a compact refused for its balance is hashed, signed and stored
AllocatedStep_SignsRefused(p) ==
    LET c == req[p].submission.compact
        allocatedAt(clock) ==
            getAllocatedBalance(compacts, clock, toLowerCase(getAddress(c.sponsor)),
                                req[p].submission.chainId, c.id, req[p].claims)
        allocatedBalance == allocatedAt(now)
        totalNeededBalance == allocatedBalance + c.amount
        \* the outcome of the comparison had the reading at entry been used
        r == [Ran(req[p], "allocated") EXCEPT
                !.clocks.balance = now,
                !.singleClock =
                    ~(req[p].allocatable < allocatedAt(req[p].clocks.start) + c.amount)]
        hash == generateClaimHash(c, r.submission.chainId)
        message == InsufficientBalance(r.allocatable, totalNeededBalance)
    IN  /\ pc[p] = "allocated"
        /\ IF r.allocatable < totalNeededBalance
           THEN Goto(p, [r EXCEPT !.validation = Invalid("Insufficient allocatable balance"),
                                  !.hash = hash,
                                  !.signature = signCompact(hash, r.submission.chainId)],
                     "store")
           ELSE IF hash = ThrownHash
           THEN Throw(p, [r EXCEPT !.validation = Valid],
                      "Cannot convert null to a BigInt")
           ELSE Goto(p, [r EXCEPT !.validation = Valid, !.hash = hash,
                                  !.signature = signCompact(hash, r.submission.chainId)],
                     "store")
        /\ UNCHANGED <<nonces, compacts, now, indexer, config, sessionRequests, creating, last, sessions, http>>

\* stage 6, second await: getAllocatedBalance and the balance comparison;
\* then generateClaimHash and signCompact, up to the INSERT of storeCompact
AllocatedStep(p) ==
    LET c == req[p].submission.compact
        allocatedAt(clock) ==
            getAllocatedBalance(compacts, clock, toLowerCase(getAddress(c.sponsor)),
                                req[p].submission.chainId, c.id, req[p].claims)
        allocatedBalance == allocatedAt(now)
        totalNeededBalance == allocatedBalance + c.amount
        \* the outcome of the comparison had the reading at entry been used
        r == [Ran(req[p], "allocated") EXCEPT
                !.clocks.balance = now,
                !.singleClock =
                    ~(req[p].allocatable < allocatedAt(req[p].clocks.start) + c.amount)]
        hash == generateClaimHash(c, r.submission.chainId)
        message == InsufficientBalance(r.allocatable, totalNeededBalance)
    IN  /\ pc[p] = "allocated"
        /\ IF r.allocatable < totalNeededBalance
           THEN Reject(p, [r EXCEPT !.have = message.have, !.need = message.need],
                       Invalid("Insufficient allocatable balance"))
           ELSE IF hash = ThrownHash
           THEN Throw(p, [r EXCEPT !.validation = Valid],
                      "Cannot convert null to a BigInt")
           ELSE Goto(p, [r EXCEPT !.validation = Valid, !.hash = hash,
                                  !.signature = signCompact(hash, r.submission.chainId)],
                     "store")
        /\ UNCHANGED <<nonces, compacts, now, indexer, config, sessionRequests, creating, last, sessions, http>>

\* mutant: a refused insert sends the admission back to validation
StoreStep_Retry(p) ==
    LET r == req[p]
    IN  /\ pc[p] = "store"
        /\ IF CompactUniqueOk(compacts, r.submission.chainId, r.hash)
           THEN /\ compacts' = Append(compacts,
                        CompactRecord(r.submission.chainId, r.submission.compact,
                                      r.hash, r.signature, now))
                /\ pc' = [pc EXCEPT ![p] = "done"]
                /\ req' = [req EXCEPT ![p] =
                              [r EXCEPT !.result = Success(r.hash, r.signature),
                                        !.hash = NoHash, !.signature = NoSignature]]
           ELSE /\ compacts' = compacts
                /\ Goto(p, [r EXCEPT !.passes = @ + 1, !.hash = NoHash,
                                      !.signature = NoSignature], "nonce")
        /\ UNCHANGED <<nonces, now, indexer, config, sessionRequests, creating, last, sessions, http>>

\* storeCompact: the INSERT into compacts, then the return
StoreStep(p) ==
    LET r == req[p]
    IN  /\ pc[p] = "store"
        /\ IF CompactUniqueOk(compacts, r.submission.chainId, r.hash)
           THEN /\ compacts' = Append(compacts,
                        CompactRecord(r.submission.chainId, r.submission.compact,
                                      r.hash, r.signature, now))
                /\ pc' = [pc EXCEPT ![p] = "done"]
                /\ req' = [req EXCEPT ![p] =
                              [r EXCEPT !.result = Success(r.hash, r.signature),
                                        !.hash = NoHash, !.signature = NoSignature]]
           ELSE /\ compacts' = compacts
                /\ Throw(p, r, "duplicate key value violates unique constraint")
        /\ UNCHANGED <<nonces, now, indexer, config, sessionRequests, creating, last, sessions, http>>

\* the response is sent; the handler is free for the next request
Return(p) ==
    /\ pc[p] = "done"
    /\ pc' = [pc EXCEPT ![p] = "idle"]
    /\ req' = [q \in Procs |->
                  IF q = p THEN IdleReq
                  ELSE [req[q] EXCEPT !.overlap = @ \ {p}]]
    /\ UNCHANGED <<nonces, compacts, now, indexer, config, sessionRequests, creating, last, sessions, http>>

Handler(p) ==
    \/ NonceStep(p)
    \/ IndexerStep(p)
    \/ AllocatedStep(p)
    \/ StoreStep(p)
    \/ Return(p)

\* the clock: time passes, long enough for an hour-long compact to expire
\* and pass its finalization threshold
StartTime == 1000

Tick ==
    /\ now < StartTime + MaxTicks * 3700
    /\ now' = now + 3700
    /\ UNCHANGED <<nonces, compacts, indexer, config, sessionRequests, creating, pc, req, last, sessions, http>>

-----------------------------------------------------------------------------
(* Sessions and the protected routes *)

\* a row of sessions: the columns of the INSERT
SessionRow(id, address, expiresAt, nonce, domain) ==
    [id |-> id, address |-> address, expiresAt |-> expiresAt, nonce |-> nonce,
     domain |-> domain]

\* what the sessions table and the clock say about a session id
SessionState(table, sessionId, clock) ==
    IF sessionId = "" THEN "missing"
    ELSE IF \A s \in table : s.id # sessionId THEN "unknown"
    ELSE IF \E s \in table : s.id = sessionId /\ clock > s.expiresAt THEN "expired"
    ELSE "valid"

\* mutant: a session is expired from the instant of its expiry on
verifySession_ExpiredAtExpiry(table, sessionId, address, clock) ==
    LET rows == {s \in table : s.id = sessionId}
        session == CHOOSE s \in rows : TRUE
    IN  IF sessionId = ""
        THEN [threw |-> "Session ID is required", sessions |-> table]
        ELSE IF rows = {}
        THEN [threw |-> "Invalid session ID", sessions |-> table]
        ELSE IF clock >= session.expiresAt
        THEN [threw |-> "Session has expired", sessions |-> table \ rows]
        ELSE IF address # NoAddress /\ getAddress(address) # getAddress(session.address)
        THEN [threw |-> "Session address mismatch", sessions |-> table]
        ELSE [threw |-> "", sessions |-> table]

\* verifySession(server, sessionId, address?): the error thrown ("" when it
\* returns true) and the sessions table it leaves
verifySession(table, sessionId, address, clock) ==
    LET rows == {s \in table : s.id = sessionId}
        session == CHOOSE s \in rows : TRUE
    IN  IF sessionId = ""
        THEN [threw |-> "Session ID is required", sessions |-> table]
        ELSE IF rows = {}
        THEN [threw |-> "Invalid session ID", sessions |-> table]
        ELSE IF clock > session.expiresAt
        THEN [threw |-> "Session has expired", sessions |-> table \ rows]
        ELSE IF address # NoAddress /\ getAddress(address) # getAddress(session.address)
        THEN [threw |-> "Session address mismatch", sessions |-> table]
        ELSE [threw |-> "", sessions |-> table]

Routes == {"POST /compact", "GET /compacts", "GET /compact/:chainId/:claimHash"}

\* a request arrives at a protected route
Request(p, route, sessionId, body, chainId, claimHash) ==
    /\ pc[p] = "idle"
    /\ http[p].phase \in {"idle", "replied"}
    /\ http' = [http EXCEPT ![p] =
                    [NoExchange EXCEPT !.route = route, !.sessionId = sessionId,
                                       !.body = body, !.chainId = chainId,
                                       !.claimHash = claimHash,
                                       !.phase = "preHandler"]]
    /\ UNCHANGED <<nonces, compacts, now, indexer, config, sessionRequests, creating, pc, req, last, sessions>>

\* reply.code(status).send(...): a reply sent in the preHandler hook ends the
\* exchange, the route handler is not called
Replied(x, status, error, by) ==
    [x EXCEPT !.phase = "replied", !.status = status, !.error = error, !.by = by]

\* the preHandler hook.  The function names `server`, which is neither a
\* parameter of it nor a binding of its module: where no such binding exists
\* (config.serverInScope false) the call of verifySession and the catch
\* block both raise, the hook rejects and the framework answers 500
authenticateRequest(p) ==
    LET x == [http[p] EXCEPT
                !.sessionWas = SessionState(sessions, http[p].sessionId, now)]
        v == verifySession(sessions, x.sessionId, NoAddress, now)
        y == [x EXCEPT !.verified = IF v.threw = "" THEN "returned true" ELSE v.threw]
    IN  /\ http[p].phase = "preHandler"
        /\ IF x.sessionId = ""
           THEN /\ http' = [http EXCEPT ![p] =
                      Replied(x, 401, "Session ID required", "authenticateRequest")]
                /\ sessions' = sessions
           ELSE IF ~config.serverInScope
           THEN /\ http' = [http EXCEPT ![p] =
                      Replied(x, 500, "server is not defined", "errorHandler")]
                /\ sessions' = sessions
           ELSE IF v.threw # ""
           THEN /\ http' = [http EXCEPT ![p] =
                      Replied(y, 401, "Invalid session", "authenticateRequest")]
                /\ sessions' = v.sessions
           ELSE /\ http' = [http EXCEPT ![p] = [y EXCEPT !.phase = "handler"]]
                /\ sessions' = sessions
        /\ UNCHANGED <<nonces, compacts, now, indexer, config, sessionRequests, creating, pc, req, last>>

\* SELECT address FROM sessions WHERE id = $1
SessionAddresses(table, sessionId) == {s.address : s \in {t \in table : t.id = sessionId}}

\* POST /compact: the session's address is read and submitCompact is called;
\* without a session row, rows[0].address raises and the catch answers 500
PostCompact(p) ==
    LET x == http[p]
        addresses == SessionAddresses(sessions, x.sessionId)
    IN  /\ x.phase = "handler"
        /\ x.route = "POST /compact"
        /\ IF addresses # {}
           THEN /\ Submit(p, x.body, CHOOSE a \in addresses : TRUE)
           ELSE /\ pc[p] = "idle"
                /\ http' = [http EXCEPT ![p] =
                      Replied(x, 500, "Internal server error", "handler")]
                /\ UNCHANGED <<nonces, compacts, now, indexer, config, sessionRequests, creating, pc, req,
                               last, sessions>>

\* POST /compact: submitCompact has returned or thrown
PostReply(p) ==
    LET x == http[p]
    IN  /\ x.phase = "handler"
        /\ x.route = "POST /compact"
        /\ pc[p] = "done"
        /\ http' = [http EXCEPT ![p] =
              IF req[p].result.ok
              THEN [Replied(x, 200, "", "handler") EXCEPT !.result = req[p].result]
              ELSE Replied(x, 500, "Internal server error", "handler")]
        /\ UNCHANGED <<nonces, compacts, now, indexer, config, sessionRequests, creating, pc, req, last, sessions>>

\* GET /compacts: the compacts of the session's address
GetCompacts(p) ==
    LET x == http[p]
        addresses == SessionAddresses(sessions, x.sessionId)
    IN  /\ x.phase = "handler"
        /\ x.route = "GET /compacts"
        /\ IF addresses # {}
           THEN \E rows \in getCompactsByAddress(compacts, CHOOSE a \in addresses : TRUE) :
                    http' = [http EXCEPT ![p] =
                        [Replied(x, 200, "", "handler") EXCEPT !.rows = rows]]
           ELSE http' = [http EXCEPT ![p] =
                    Replied(x, 500, "Internal server error", "handler")]
        /\ UNCHANGED <<nonces, compacts, now, indexer, config, sessionRequests, creating, pc, req, last, sessions>>

\* GET /compact/:chainId/:claimHash
GetCompact(p) ==
    LET x == http[p]
        hits == getCompactByHash(compacts, x.chainId, x.claimHash)
    IN  /\ x.phase = "handler"
        /\ x.route = "GET /compact/:chainId/:claimHash"
        /\ http' = [http EXCEPT ![p] =
              IF hits = <<>>
              THEN Replied(x, 404, "Compact not found", "handler")
              ELSE [Replied(x, 200, "", "handler") EXCEPT !.rows = hits]]
        /\ UNCHANGED <<nonces, compacts, now, indexer, config, sessionRequests, creating, pc, req, last, sessions>>

\* the steps of submitCompact inside POST /compact; the handler is free
\* again once the reply is sent
RouteHandler(p) ==
    /\ Handler(p)
    /\ pc[p] = "done" => http[p].phase = "replied"

-----------------------------------------------------------------------------
(* Session creation: POST /session and validateAndCreateSession.  Times    *)
(* are seconds; a timestamp string stands for its instant.                 *)

\* process.env.BASE_URL and new URL(BASE_URL).host
BaseUrl == "https://smallocator.example"
ServerDomain == "smallocator.example"

\* the fields of a SessionPayload that the code reads
SessionPayload(domain, address, uri, statement, chainId, nonce, issuedAt, expirationTime) ==
    [domain |-> domain, address |-> address, uri |-> uri, statement |-> statement,
     chainId |-> chainId, nonce |-> nonce, issuedAt |-> issuedAt,
     expirationTime |-> expirationTime]

NoPayload == SessionPayload("", NoAddress, "", "", 0, "", 0, 0)

\* a row of session_requests, by the columns the queries name
SessionRequest(nonce, domain, chainId, address, issuedAt, expirationTime, used) ==
    [nonce |-> nonce, domain |-> domain, chainId |-> chainId, address |-> address,
     issuedAt |-> issuedAt, expirationTime |-> expirationTime, used |-> used]

NoRequest == SessionRequest("", "", 0, NoAddress, 0, 0, TRUE)

\* isValidPayload(payload), reading Date.now()
isValidPayload(payload, clock) ==
    /\ payload.address.form # "malformed"
    /\ payload.uri = BaseUrl
    /\ payload.issuedAt <= clock
    /\ payload.expirationTime > clock
    /\ payload.domain = ServerDomain
    /\ payload.statement = "Sign in to Smallocator"
    /\ payload.chainId >= 1

\* formatMessage(payload): the text names every field of the payload
formatMessage(payload) ==
    <<payload.domain, payload.address, payload.statement, payload.uri,
      payload.chainId, payload.nonce, payload.issuedAt, payload.expirationTime>>

\* a signature: whether the text starts with 0x, and the key and the
\* message it was made with
Signature(format, signer, message) ==
    [format |-> format, signer |-> signer, message |-> message]

NoSessionSignature == Signature("", 0, formatMessage(NoPayload))

\* verifyMessage({ address, message, signature })
verifyMessage(address, message, signature) ==
    /\ signature.signer = addressToBytes(address)
    /\ signature.message = message

\* same nonce, domain, chain_id and address as the payload
SameRequestKey(r, payload) ==
    /\ r.nonce = payload.nonce
    /\ r.domain = payload.domain
    /\ r.chainId = payload.chainId
    /\ r.address = payload.address

\* mutant: a used request matches as well
MatchingRequests_AlsoUsed(table, payload, clock) == {r \in table : SameRequestKey(r, payload) /\ r.expirationTime > clock}

\* SELECT * FROM session_requests WHERE nonce, domain, chain_id, address
\* match AND used = FALSE AND expiration_time > CURRENT_TIMESTAMP
MatchingRequests(table, payload, clock) ==
    {r \in table : SameRequestKey(r, payload) /\ ~r.used /\ r.expirationTime > clock}

\* UPDATE session_requests SET used = TRUE WHERE nonce, domain, chain_id,
\* address match
MarkedUsed(table, payload) ==
    {IF SameRequestKey(r, payload) THEN [r EXCEPT !.used = TRUE] ELSE r : r \in table}

\* randomUUID()
Uuids == {"u1", "u2", "u3"}

\* one call of validateAndCreateSession: where it stands, its arguments,
\* the request row it read, the clock readings of isValidPayload and of
\* the SELECT, and what it threw or returned
NoCreation ==
    [pc |-> "idle", signature |-> NoSessionSignature, payload |-> NoPayload,
     request |-> NoRequest, enteredAt |-> 0, selectedAt |-> 0, error |-> "",
     session |-> SessionRow("", NoAddress, 0, "", "")]

\* throw new Error(e): the catch block logs and rethrows
CreationFails(p, c, e) ==
    creating' = [creating EXCEPT ![p] = [c EXCEPT !.pc = "failed", !.error = e]]

\* validateAndCreateSession(server, signature, payload): entry, up to the
\* SELECT
CreateSession(p, signature, payload) ==
    LET c == [NoCreation EXCEPT !.signature = signature, !.payload = payload,
                                !.enteredAt = now]
    IN  /\ creating[p].pc = "idle"
        /\ IF ~isValidPayload(payload, now)
           THEN CreationFails(p, c, "Invalid session payload structure")
           ELSE creating' = [creating EXCEPT ![p] = [c EXCEPT !.pc = "select"]]
        /\ UNCHANGED <<nonces, compacts, now, indexer, config, sessionRequests, pc, req, last, sessions, http>>

\* the SELECT has answered: requests.rows[0], the timestamp comparison and
\* the format of the signature, up to verifyMessage
SelectRequest(p) ==
    LET c == [creating[p] EXCEPT !.selectedAt = now]
        rows == MatchingRequests(sessionRequests, c.payload, now)
    IN  /\ creating[p].pc = "select"
        /\ IF rows = {}
           THEN CreationFails(p, c, "No matching session request found or request expired")
           ELSE \E request \in rows :
                   LET d == [c EXCEPT !.request = request]
                   IN  IF \/ request.issuedAt # c.payload.issuedAt
                          \/ request.expirationTime # c.payload.expirationTime
                       THEN CreationFails(p, d, "Session request timestamps do not match")
                       ELSE IF c.signature.format # "0x"
                       THEN CreationFails(p, d, "Invalid signature format: must start with 0x")
                       ELSE creating' = [creating EXCEPT ![p] = [d EXCEPT !.pc = "verify"]]
        /\ UNCHANGED <<nonces, compacts, now, indexer, config, sessionRequests, pc, req, last, sessions, http>>

\* verifyMessage has answered
VerifySignature(p) ==
    LET c == creating[p]
    IN  /\ c.pc = "verify"
        /\ IF ~verifyMessage(getAddress(c.payload.address), formatMessage(c.payload),
                             c.signature)
           THEN CreationFails(p, c, "Invalid signature")
           ELSE creating' = [creating EXCEPT ![p] = [c EXCEPT !.pc = "update"]]
        /\ UNCHANGED <<nonces, compacts, now, indexer, config, sessionRequests, pc, req, last, sessions, http>>

\* the UPDATE that marks the session request as used
MarkUsed(p) ==
    /\ creating[p].pc = "update"
    /\ sessionRequests' = MarkedUsed(sessionRequests, creating[p].payload)
    /\ creating' = [creating EXCEPT ![p].pc = "insert"]
    /\ UNCHANGED <<nonces, compacts, now, indexer, config, pc, req, last, sessions, http>>

\* the INSERT INTO sessions, and the return of the session
InsertSession(p) ==
    LET c == creating[p]
    IN  /\ c.pc = "insert"
        /\ \E id \in Uuids \ {s.id : s \in sessions} :
              LET session == SessionRow(id, c.payload.address, c.payload.expirationTime,
                                        c.payload.nonce, c.payload.domain)
              IN  /\ sessions' = sessions \cup {session}
                  /\ creating' = [creating EXCEPT ![p] =
                                     [c EXCEPT !.pc = "done", !.session = session]]
        /\ UNCHANGED <<nonces, compacts, now, indexer, config, sessionRequests, pc, req, last, http>>

\* POST /session replies with the session or with 400 and the error
SessionReply(p) ==
    /\ creating[p].pc \in {"done", "failed"}
    /\ creating' = [creating EXCEPT ![p] = NoCreation]
    /\ UNCHANGED <<nonces, compacts, now, indexer, config, sessionRequests, pc, req, last, sessions, http>>

CreationStep(p) ==
    \/ SelectRequest(p)
    \/ VerifySignature(p)
    \/ MarkUsed(p)
    \/ InsertSession(p)
    \/ SessionReply(p)

-----------------------------------------------------------------------------
(* Inputs and initial states *)

ChainIds == {"1", "10"}

Snapshot(balance, deltas) ==
    [resourceLock |-> TRUE, withdrawalStatus |-> 0, allocatorId |-> 1,
     balance |-> balance, accountDeltas |-> deltas, claims |-> {},
     reachable |-> TRUE]

IndexerStates == {Snapshot(3, <<>>), Snapshot(3, <<1>>)}

Configs == {[nodeEnv |-> "production"]}

\* reset period index 7, allocator id 1, lock 0
TheId == PackId(7, 1, 0)

Compact(sponsor, nonce, amount, expires) ==
    [arbiter |-> Addr(1, "checksum"), sponsor |-> sponsor, nonce |-> nonce,
     expires |-> expires, id |-> TheId, amount |-> amount,
     witnessTypeString |-> Null, witnessHash |-> Null]

Submission(chainId, compact) == [chainId |-> chainId, compact |-> compact]

\* the compacts a sponsor submits at time t
Submissions(t) ==
    {Submission("1", Compact(Addr(1, "checksum"), PackNonce(1, 0, 0), a, t + 3600)) :
        a \in {1, 2}}
    \cup {Submission("1", Compact(Addr(1, "checksum"), PackNonce(1, 0, 1), 2, t + 3600))}
    \cup {Submission("1", Compact(Addr(1, "checksum"), n, 1, t + 3600)) :
        n \in {NoNonce, PackNonce(0, 0, 0)}}
    \cup {Submission("1", Compact(Addr(2, "checksum"), PackNonce(2, 0, 0), 1, t + 3600))}

Sessions == {Addr(1, "checksum")}

Init ==
    /\ nonces = EmptyBag
    /\ compacts = <<>>
    /\ now = StartTime
    /\ indexer \in IndexerStates
    /\ config \in Configs
    /\ pc = [p \in Procs |-> "idle"]
    /\ req = [p \in Procs |-> IdleReq]
    /\ last = NoCall
    /\ sessions = {}
    /\ http = [p \in Procs |-> NoExchange]
    /\ sessionRequests = {}
    /\ creating = [p \in Procs |-> NoCreation]

Next ==
    \/ \E p \in Procs, a \in Sessions :
          \E sub \in Submissions(now) : Submit(p, sub, a)
    \/ \E p \in Procs : Handler(p)
    \/ Tick
    \/ StoreNonce(PackNonce(1, 0, 0), "1")
    \/ GenerateNonce(Addr(1, "checksum"), "1")

Spec == Init /\ [][Next]_vars

\* every handler whose await has completed is resumed
FairSpec == Spec /\ \A p \in Procs : WF_vars(Handler(p))

-----------------------------------------------------------------------------
(* The nonce ledger on its own: calls of the exported functions *)

\* nonces a caller passes: every fragment for sponsor 1, also outside the
\* column ranges, and the first fragment for sponsor 2
NonceInputs ==
    {PackNonce(1, h, l) : h \in 0..(MaxHigh + 1), l \in 0..(MaxLow + 1)}
    \cup {PackNonce(2, 0, 0)}

NextNonce ==
    \/ \E n \in NonceInputs : StoreNonce(n, "1")
    \/ StoreNonce(PackNonce(1, 0, 0), "10")
    \/ \E a \in {Addr(1, "checksum"), Addr(1, "lower"), Addr(2, "checksum")} :
          GenerateNonce(a, "1")
    \/ GenerateNonce(Addr(1, "checksum"), "10")
    \/ \E n \in {PackNonce(1, 0, 0), PackNonce(1, 0, MaxLow + 1), PackNonce(2, 0, 0),
                 PackNonce(0, 0, 0)} :
          ValidateNonce(n, Addr(1, "checksum"), "1")
    \/ ValidateNonce(PackNonce(1, 0, 0), Addr(1, "lower"), "10")

InitNonce == Init /\ indexer = Snapshot(3, <<>>)

SpecNonce == InitNonce /\ [][NextNonce]_vars

-----------------------------------------------------------------------------
(* One handler on its own, over the inputs that tell the stages of         *)
(* validateCompact apart                                                   *)

Malformed == [who |-> 1, form |-> "malformed"]

\* the base compact of sponsor 1
BaseCompact(t) == Compact(Addr(1, "checksum"), PackNonce(1, 0, 0), 1, t + 3600)

\* compacts the snapshot covers: the base compact with its spelling, its
\* witness fields or its expiry changed
CoveredCompacts(t) ==
    LET b == BaseCompact(t)
    IN  {b, [b EXCEPT !.sponsor = Addr(1, "lower")], [b EXCEPT !.expires = t + 7200]}
        \cup {[b EXCEPT !.witnessTypeString = w[1], !.witnessHash = w[2]] :
                 w \in {<<"T", "H">>, <<"", "H">>, <<"T", "">>}}

\* compacts that ask for more than any snapshot holds, with one or more fields
\* changed: they run the stages up to the one that refuses them
ProbeCompacts(t) ==
    LET b == [BaseCompact(t) EXCEPT !.amount = 4]
    IN  {b}
        \cup {[b EXCEPT !.sponsor = Addr(2, "checksum")]}
        \cup {[b EXCEPT !.arbiter = Malformed]}
        \cup {[b EXCEPT !.nonce = n] :
                 n \in {NoNonce, PackNonce(2, 0, 0), PackNonce(1, 0, 1)}}
        \cup {[b EXCEPT !.expires = e] : e \in {0, t, t + 1, t + 7200, t + 7201}}
        \cup {[b EXCEPT !.id = i] :
                 i \in {0, 1, PackId(0, 1, 0), PackId(4, 1, 0), PackId(7, 2, 0)}}
        \cup {[b EXCEPT !.id = PackId(0, 1, 0), !.expires = e] : e \in {t + 1, t + 7201}}
        \* ids with the topmost bit set
        \cup {[b EXCEPT !.id = ScopeBase + PackId(4, 1, 0), !.expires = e] :
                 e \in {t + 3600, t + 7200}}
        \cup {[b EXCEPT !.id = ScopeBase + PackId(7, 2, 0)]}
        \cup {[b EXCEPT !.witnessTypeString = w[1], !.witnessHash = w[2]] :
                 w \in {<<Null, "H">>, <<"T", Null>>}}
        \* several stages fail at once
        \cup {[b EXCEPT !.amount = a, !.nonce = n, !.expires = e, !.id = i] :
                 a \in {4, 0 - 1}, n \in {PackNonce(1, 0, 0), PackNonce(2, 0, 0)},
                 e \in {t + 3600, t}, i \in {TheId, PackId(0, 1, 0)}}

PipelineSubmissions(t) ==
    {Submission("1", c) : c \in CoveredCompacts(t) \cup ProbeCompacts(t)}
    \cup {Submission(ch, c) :
            ch \in {"01", "0"},
            c \in {BaseCompact(t), [BaseCompact(t) EXCEPT !.amount = 0 - 1],
                   [BaseCompact(t) EXCEPT !.expires = t]}}
    \cup {Submission("10", [BaseCompact(t) EXCEPT !.amount = 4])}

PipelineIndexerStates ==
    LET s == Snapshot(3, <<>>)
    IN  {s,
         [s EXCEPT !.resourceLock = FALSE],
         [s EXCEPT !.resourceLock = FALSE, !.withdrawalStatus = 1],
         [s EXCEPT !.withdrawalStatus = 1],
         [s EXCEPT !.withdrawalStatus = 1, !.allocatorId = 2],
         [s EXCEPT !.allocatorId = 2],
         [s EXCEPT !.allocatorId = 0],
         [s EXCEPT !.allocatorId = NoAllocatorId]}

PipelineConfigs == {[nodeEnv |-> "production"], [nodeEnv |-> "test"]}

\* the indexer reports the claim of a stored compact as processed
IndexerClaims(i) ==
    /\ i \in DOMAIN compacts
    /\ compacts[i].hash \notin indexer.claims
    /\ indexer' = [indexer EXCEPT !.claims = @ \cup {compacts[i].hash}]
    /\ UNCHANGED <<nonces, compacts, now, config, sessionRequests, creating, pc, req, last, sessions, http>>

InitPipeline ==
    /\ nonces = EmptyBag
    /\ compacts = <<>>
    /\ now = StartTime
    /\ indexer \in PipelineIndexerStates
    /\ config \in PipelineConfigs
    /\ pc = [p \in Procs |-> "idle"]
    /\ req = [p \in Procs |-> IdleReq]
    /\ last = NoCall
    /\ sessions = {}
    /\ http = [p \in Procs |-> NoExchange]
    /\ sessionRequests = {}
    /\ creating = [p \in Procs |-> NoCreation]

NextPipeline ==
    \/ \E sub \in PipelineSubmissions(now) : Submit(1, sub, Addr(1, "checksum"))
    \/ Handler(1)
    \/ Tick
    \/ StoreNonce(PackNonce(1, 0, 0), "1")

SpecPipeline == InitPipeline /\ [][NextPipeline]_vars

-----------------------------------------------------------------------------
(* One handler on its own, over the snapshots, amounts and times that tell *)
(* the outcomes of the balance comparison apart                            *)

\* pending deltas: none, negative, below the balance, above the balance; and
\* a balance of half the largest amount
LifecycleIndexerStates ==
    {Snapshot(3, <<>>), Snapshot(3, <<0 - 1>>), Snapshot(3, <<1, 1>>), Snapshot(3, <<5>>),
     Snapshot(2, <<>>)}

LifecycleSubmissions(t) ==
    {Submission("1", [BaseCompact(t) EXCEPT !.amount = a]) : a \in {0, 1, 2, 4}}

InitLifecycle ==
    /\ nonces = EmptyBag
    /\ compacts = <<>>
    /\ now = StartTime
    /\ indexer \in LifecycleIndexerStates
    /\ config = [nodeEnv |-> "production"]
    /\ pc = [p \in Procs |-> "idle"]
    /\ req = [p \in Procs |-> IdleReq]
    /\ last = NoCall
    /\ sessions = {}
    /\ http = [p \in Procs |-> NoExchange]
    /\ sessionRequests = {}
    /\ creating = [p \in Procs |-> NoCreation]

NextLifecycle ==
    \/ \E sub \in LifecycleSubmissions(now) : Submit(1, sub, Addr(1, "checksum"))
    \/ Handler(1)
    \/ Tick
    \/ \E i \in 1..MaxCompacts : IndexerClaims(i)

SpecLifecycle == InitLifecycle /\ [][NextLifecycle]_vars

-----------------------------------------------------------------------------
(* One handler next to direct calls of the nonce functions *)

\* the lock is there, the indexer does not know it, or the indexer cannot
\* be reached
FrameIndexerStates ==
    {Snapshot(3, <<>>),
     [Snapshot(3, <<>>) EXCEPT !.resourceLock = FALSE],
     [Snapshot(3, <<>>) EXCEPT !.reachable = FALSE]}

InitFrame ==
    /\ nonces = EmptyBag
    /\ compacts = <<>>
    /\ now = StartTime
    /\ indexer \in FrameIndexerStates
    /\ config = [nodeEnv |-> "production"]
    /\ pc = [p \in Procs |-> "idle"]
    /\ req = [p \in Procs |-> IdleReq]
    /\ last = NoCall
    /\ sessions = {}
    /\ http = [p \in Procs |-> NoExchange]
    /\ sessionRequests = {}
    /\ creating = [p \in Procs |-> NoCreation]

NextFrame ==
    \/ \E sub \in PipelineSubmissions(now) : Submit(1, sub, Addr(1, "checksum"))
    \/ Handler(1)
    \/ Tick
    \/ StoreNonce(PackNonce(1, 0, 0), "1")
    \/ GenerateNonce(Addr(1, "checksum"), "1")
    \/ ValidateNonce(PackNonce(1, 0, 0), Addr(1, "checksum"), "1")

SpecFrame == InitFrame /\ [][NextFrame]_vars

-----------------------------------------------------------------------------
(* The protected routes: one client connection, sessions of two sponsors   *)

\* whether the name `server` resolves inside authenticateRequest
RoutesConfigs == {[nodeEnv |-> "production", serverInScope |-> b] : b \in BOOLEAN}

\* session s1 of sponsor 1 lasts an hour, session s2 of sponsor 2 up to the
\* last instant the clock reaches
RoutesSessions ==
    {SessionRow("s1", Addr(1, "checksum"), StartTime + 3600, "n1", "smallocator.example"),
     SessionRow("s2", Addr(2, "checksum"), StartTime + MaxTicks * 3700, "n2",
                "smallocator.example")}

\* header values: absent, the two sessions, an id no session has
SessionIds == {"", "s1", "s2", "s9"}

\* compacts of sponsor 1 in both spellings and two compacts of sponsor 2
RoutesSubmissions(t) ==
    {Submission("1", Compact(Addr(1, "checksum"), PackNonce(1, 0, 0), 1, t + 3600)),
     Submission("1", Compact(Addr(1, "lower"), PackNonce(1, 0, 1), 1, t + 3600)),
     Submission("1", Compact(Addr(2, "checksum"), PackNonce(2, 0, 0), 1, t + 3600)),
     Submission("1", Compact(Addr(2, "checksum"), PackNonce(2, 0, 1), 1, t + 3600))}

\* hashes a client asks for: those of stored compacts and one never stored
RoutesHashes(t) ==
    {compacts[i].hash : i \in DOMAIN compacts}
    \cup {generateClaimHash(Compact(Addr(1, "checksum"), PackNonce(1, 0, 0), 4, t + 3600), "1")}

InitRoutes ==
    /\ nonces = EmptyBag
    /\ compacts = <<>>
    /\ now = StartTime
    /\ indexer = Snapshot(3, <<>>)
    /\ config \in RoutesConfigs
    /\ pc = [p \in Procs |-> "idle"]
    /\ req = [p \in Procs |-> IdleReq]
    /\ last = NoCall
    /\ sessions = RoutesSessions
    /\ http = [p \in Procs |-> NoExchange]
    /\ sessionRequests = {}
    /\ creating = [p \in Procs |-> NoCreation]

NextRoutes ==
    \/ \E sid \in SessionIds :
          \/ \E sub \in RoutesSubmissions(now) :
                Request(1, "POST /compact", sid, sub, "", NoHash)
          \/ Request(1, "GET /compacts", sid, NoSubmission, "", NoHash)
          \/ \E c \in ChainIds, h \in RoutesHashes(now) :
                Request(1, "GET /compact/:chainId/:claimHash", sid, NoSubmission, c, h)
    \/ authenticateRequest(1)
    \/ PostCompact(1)
    \/ PostReply(1)
    \/ GetCompacts(1)
    \/ GetCompact(1)
    \/ RouteHandler(1)
    \/ Tick

SpecRoutes == InitRoutes /\ [][NextRoutes]_vars

-----------------------------------------------------------------------------
(* Properties *)

Done(p) == pc[p] = "done"

\* the request passes the session check and stages 1 and 2
ReachesNonceStage(r) ==
    /\ getAddress(r.submission.compact.sponsor) = getAddress(r.session)
    /\ ~ChainIdInvalid(r.submission.chainId)
    /\ validateStructure(r.submission.compact).isValid

\* the (high, low) pair a packed nonce carries
Fragment(nonce) == <<NonceHigh(nonce), NonceLow(nonce)>>

\* the rows of the ledger the last generateNonce call looked at
LastRows == LedgerRows(nonces, last.chainId, addressToBytes(last.sponsor))

\* the pairs generateNonce can return
Pairs == (0..(MaxHigh + 1)) \X (0..MaxLow)

\* C1: for each (sponsor, chainId, lock id), the amounts of the outstanding
\* admitted compacts sum to at most max(0, balance - pending deltas) of the
\* indexer snapshot, also when admissions run concurrently.
C1_NoOverAllocation ==
    \A i \in DOMAIN compacts :
        getAllocatedBalance(compacts, now, compacts[i].compact.sponsor,
                            compacts[i].chainId, compacts[i].compact.id,
                            indexer.claims)
            <= AllocatableBalance(indexer)

\* C2: no (chainId, sponsor, high, low) appears in more than one row of the
\* nonce ledger.
C2_NonceUnique ==
    \A row \in BagToSet(nonces) : CopiesIn(row, nonces) = 1

\* a storeNonce call for a tuple the ledger already held was refused
C2_Witness ==
    /\ last.op = "storeNonce"
    /\ last.result.threw
    /\ BagIn(NonceRow(last.chainId, NonceSponsorPart(last.nonce),
                      NonceHigh(last.nonce), NonceLow(last.nonce)), nonces)

\* C3: an admission that explicitly supplies a nonce already carried by an
\* admitted compact of the same chain and sponsor is rejected (with the
\* nonce-used error): it is never admitted.
C3_ConsumedNonceStaysConsumed ==
    \A p \in Procs :
        (Done(p) /\ req[p].nonceAdmitted /\ ReachesNonceStage(req[p]))
            => ~req[p].result.ok

\* C4: of two concurrent admissions for the same chain and sponsor that both
\* found the same supplied nonce free, exactly one succeeds.
C4_OneAdmissionPerNonce ==
    \A p, q \in Procs :
        ( /\ p # q /\ Done(p) /\ Done(q)
          /\ q \in req[p].overlap
          /\ req[p].validation.isValid /\ req[q].validation.isValid
          /\ req[p].submission.chainId = req[q].submission.chainId
          /\ addressToBytes(req[p].submission.compact.sponsor)
               = addressToBytes(req[q].submission.compact.sponsor)
          /\ req[p].submission.compact.nonce # NoNonce
          /\ req[p].submission.compact.nonce = req[q].submission.compact.nonce )
            => (req[p].result.ok # req[q].result.ok)

\* C5: a submission without a nonce that passes validation is admitted and
\* the nonce ledger then holds the reserved tuple for its chain and sponsor.
C5_NullNonceReserved ==
    \A p \in Procs :
        ( /\ Done(p)
          /\ req[p].submission.compact.nonce = NoNonce
          /\ req[p].validation.isValid )
            => /\ req[p].result.ok
               /\ LedgerRows(nonces, req[p].submission.chainId,
                             addressToBytes(req[p].submission.compact.sponsor)) # {}

\* C6: the top bits of every admitted compact's nonce are its sponsor, and a
\* nonce returned by generateNonce carries the sponsor it was asked for.
C6_AddressBinding ==
    /\ \A i \in DOMAIN compacts :
          /\ compacts[i].compact.nonce # NoNonce
          /\ NonceSponsorPart(compacts[i].compact.nonce)
               = addressToBytes(compacts[i].compact.sponsor)
    /\ last.op = "generateNonce" =>
          NonceSponsorPart(last.result.nonce) = addressToBytes(last.sponsor)

\* a compact is admitted, a nonce of another address has been refused, and
\* generateNonce has answered
C6_Witness ==
    /\ compacts # <<>>
    /\ last.op = "generateNonce"
    /\ \E p \in Procs :
          /\ Done(p)
          /\ req[p].result.error = "Nonce does not match sponsor address"

\* C7: generateNonce returns the smallest (high, low), in the order
\* high * 2^32 + low, that the ledger does not hold for that chain and sponsor.
C7_SmallestFree ==
    last.op = "generateNonce" =>
        /\ Fragment(last.result.nonce) \notin LastRows
        /\ \A u \in Pairs \ LastRows :
              Combined(Fragment(last.result.nonce)) <= Combined(u)

\* C8: generateNonce returns (0,0) on an empty ledger, (0,1) when only (0,0)
\* is used, (0,1) when (0,0) and (0,2) are used, and (0,3) once (0,1) is
\* stored as well.
C8_GapReuse ==
    last.op = "generateNonce" =>
        /\ LastRows = {} => Fragment(last.result.nonce) = <<0, 0>>
        /\ LastRows = {<<0, 0>>} => Fragment(last.result.nonce) = <<0, 1>>
        /\ LastRows = {<<0, 0>>, <<0, 2>>} => Fragment(last.result.nonce) = <<0, 1>>
        /\ LastRows = {<<0, 0>>, <<0, 1>>, <<0, 2>>} =>
              Fragment(last.result.nonce) = <<0, 3>>

\* the gap (0,1) has been filled and generateNonce has answered
C8_Witness ==
    /\ last.op = "generateNonce"
    /\ LastRows = {<<0, 0>>, <<0, 1>>, <<0, 2>>}
    /\ Fragment(last.result.nonce) = <<0, 3>>

\* C9: the successor of (h, l) is (h, l+1) below the largest low and (h+1, 0)
\* at it, and a stored (h, largest low) followed by a stored (h+1, 0) is not
\* taken for a gap.
C9_RolloverConsecutive ==
    \A c \in ChainIds, b \in Sponsors :
        LET rows == LedgerRows(nonces, c, b)
        IN  \A t \in rows :
              /\ GapOf(t) = IF t[2] < MaxLow THEN <<t[1], t[2] + 1>>
                            ELSE <<t[1] + 1, 0>>
              /\ (t[2] = MaxLow /\ <<t[1] + 1, 0>> \in rows) => ~IsGapRow(rows, t)

C11_AtomicCommit ==
    \A i \in DOMAIN compacts :
        LET c == compacts[i].compact
        IN  /\ c.nonce # NoNonce
            /\ BagIn(NonceRow(compacts[i].chainId, addressToBytes(c.sponsor),
                              NonceHigh(c.nonce), NonceLow(c.nonce)), nonces)

SessionMismatch(r) ==
    getAddress(r.submission.compact.sponsor) # getAddress(r.session)

\* C12: a submission whose sponsor is not the session's address, casing aside,
\* ends with the session error before any stage of validation has run, without
\* hash or signature, and no compact of a sponsor other than the session's is
\* ever stored.
C12_SponsorMatchesSession ==
    /\ \A p \in Procs :
          (pc[p] # "idle" /\ SessionMismatch(req[p])) =>
              /\ Done(p)
              /\ req[p].result = Failure("Sponsor address does not match session")
              /\ req[p].stages = <<>> /\ req[p].passes = 0
              /\ req[p].validation = NoValidation
              /\ req[p].hash = NoHash /\ req[p].signature = NoSignature
    /\ \A i \in DOMAIN compacts :
          getAddress(compacts[i].compact.sponsor) = getAddress(Addr(1, "checksum"))

\* a compact whose sponsor is spelt in lower case is stored for the session of
\* the same address, and a submission for another sponsor has been refused
C12_Witness ==
    /\ \E i \in DOMAIN compacts : compacts[i].compact.sponsor = Addr(1, "lower")
    /\ nonces = EmptyBag
    /\ \E p \in Procs :
          /\ Done(p)
          /\ SessionMismatch(req[p])
          /\ req[p].result.error = "Sponsor address does not match session"

\* the order of the stages for a compact
StageOrder(compact) ==
    IF compact.nonce = NoNonce
    THEN <<"chainId", "structure", "expiration", "domain", "indexer", "allocated">>
    ELSE <<"chainId", "structure", "nonce", "expiration", "domain", "indexer",
           "allocated">>

IsPrefix(a, b) == Len(a) <= Len(b) /\ \A k \in 1..Len(a) : a[k] = b[k]

\* the errors each stage returns
StageErrors(stage) ==
    CASE stage = "chainId" -> {"Invalid chain ID format"}
      [] stage = "structure" ->
            {"Invalid arbiter address", "Invalid expires timestamp", "Invalid id",
             "Invalid amount format",
             "Witness type and hash must both be present or both be null"}
      [] stage = "nonce" ->
            {"Nonce does not match sponsor address", "Nonce validation error",
             "Nonce has already been used"}
      [] stage = "expiration" ->
            {"Compact has expired", "Expiration must be within 2 hours"}
      [] stage = "domain" ->
            {"Invalid ID: must be positive", "Invalid chain ID format",
             "Reset period would allow forced withdrawal before expiration"}
      [] stage = "indexer" ->
            {"Resource lock not found", "Resource lock has forced withdrawals enabled",
             "Invalid allocator ID"}
      [] stage = "allocated" -> {"Insufficient allocatable balance"}

\* validateCompact has returned { isValid: false }
Rejected(p) == Done(p) /\ req[p].passes > 0 /\ ~req[p].validation.isValid

\* C13: the stages a request has run are an initial part of the fixed order
\* chain id, structure, nonce (if supplied), expiration, domain, indexer query,
\* allocated-balance query; a rejection carries an error of the last stage run,
\* every stage before it had passed, and a compact found valid has run them all.
C13_StageOrder ==
    \A p \in Procs :
        LET r == req[p]
            c == r.submission.compact
            n == Len(r.stages)
        IN  (pc[p] # "idle" /\ r.passes > 0) =>
              /\ IsPrefix(r.stages, StageOrder(c))
              /\ n >= 1
              /\ n >= 2 => ~ChainIdInvalid(r.submission.chainId)
              /\ n >= 3 => validateStructure(c).isValid
              /\ (n >= 2 /\ r.stages[n] = "domain" /\ Done(p)) =>
                    validateExpiration(c.expires, r.clocks.stages).isValid
              /\ (ChainIdInvalid(r.submission.chainId) /\ Done(p)) =>
                    r.stages = <<"chainId">>
              /\ Rejected(p) => r.validation.error \in StageErrors(r.stages[n])
              /\ r.validation.isValid => r.stages = StageOrder(c)

\* a compact that fails both the expiration and the domain stage has been
\* rejected by the expiration stage, before any query to the indexer
C13_Witness ==
    \E p \in Procs :
        LET c == req[p].submission.compact
        IN  /\ Rejected(p)
            /\ req[p].stages = <<"chainId", "structure", "nonce", "expiration">>
            /\ req[p].validation.error = "Expiration must be within 2 hours"
            /\ ~validateDomainAndId(c.id, c.expires, req[p].submission.chainId,
                                    config.nodeEnv, req[p].clocks.stages).isValid

\* the expiration stage refused the request
ExpirationRejected(p) ==
    /\ Rejected(p)
    /\ req[p].stages[Len(req[p].stages)] = "expiration"

\* C14: validateExpiration accepts expires exactly when
\* now < expires <= now + 7200, for the clock reading it made.
C14_ExpiryBound ==
    \A p \in Procs :
        LET t == req[p].clocks.stages
            e == req[p].submission.compact.expires
        IN  (Done(p) /\ "expiration" \in Range(req[p].stages)) =>
                (~ExpirationRejected(p) <=> (t < e /\ e <= t + 7200))

\* a compact expiring 7200 seconds after its validation is stored and one
\* expiring a second later has been refused
C14_Witness ==
    /\ \E i \in DOMAIN compacts :
          compacts[i].compact.expires = compacts[i].createdAt + 7200
    /\ \E p \in Procs :
          /\ ExpirationRejected(p)
          /\ req[p].submission.compact.expires = req[p].clocks.stages + 7201

LastStage(r) == r.stages[Len(r.stages)]

\* the request has got past validateDomainAndId
PassedDomain(p) ==
    /\ pc[p] # "idle"
    /\ "domain" \in Range(req[p].stages)
    /\ ~(Rejected(p) /\ LastStage(req[p]) = "domain")

\* now + resetPeriod(index of the id) >= expires, and index 0 with an hour to
\* go is refused
ResetPeriodCovers(p) ==
    LET c == req[p].submission.compact
        t == req[p].clocks.stages
    IN  /\ PassedDomain(p) =>
              t + resetPeriods[IdResetPeriodIndex(c.id) + 1] >= c.expires
        /\ ( /\ Done(p) /\ "domain" \in Range(req[p].stages)
              /\ IdResetPeriodIndex(c.id) = 0 /\ c.expires = t + 3600 ) =>
              /\ Rejected(p)
              /\ req[p].validation.error =
                    "Reset period would allow forced withdrawal before expiration"

\* C15 as stated: every compact that passes the domain stage satisfies
\* now + resetPeriod(resetPeriodIndex(id)) >= expires, and index 0 with
\* expires = now + 3600 is rejected, for every id and every configuration.
C15_ResetPeriodEveryConfig ==
    \A p \in Procs : ResetPeriodCovers(p)

\* C15 amended: the same, except for id 1 when NODE_ENV is "test".
C15_ResetPeriodCovers ==
    \A p \in Procs :
        ~(config.nodeEnv = "test" /\ req[p].submission.chainId # Null
            /\ req[p].submission.compact.id = 1)
        => ResetPeriodCovers(p)

\* under NODE_ENV "test" an id other than 1, with reset period index 0 and an
\* hour to go, has been refused for its reset period
C15_Witness ==
    \E p \in Procs :
        /\ config.nodeEnv = "test"
        /\ Rejected(p)
        /\ req[p].submission.compact.id = PackId(0, 1, 0)
        /\ req[p].submission.compact.expires = req[p].clocks.stages + 3600
        /\ req[p].validation.error =
              "Reset period would allow forced withdrawal before expiration"

\* C16: the outcome of the expiration stage and of the balance comparison is
\* the one the clock reading at the start of the validation gives.
C16_SingleClock ==
    \A p \in Procs :
        LET r == req[p]
        IN  (Done(p) /\ r.passes > 0) =>
              /\ "expiration" \in Range(r.stages) =>
                    (ExpirationRejected(p) <=>
                        ~validateExpiration(r.submission.compact.expires,
                                            r.clocks.start).isValid)
              /\ "allocated" \in Range(r.stages) =>
                    ((Rejected(p) /\ LastStage(r) = "allocated") <=> ~r.singleClock)

Max(a, b) == IF a >= b THEN a ELSE b

\* the amounts of the stored compacts of one sponsor, chain and lock that are
\* outstanding at a clock value, given the processed claims
RECURSIVE OutstandingSum(_, _, _, _, _, _)
OutstandingSum(table, clock, sponsorBytes, chainId, id, claims) ==
    IF table = <<>> THEN 0
    ELSE LET h == Head(table)
             counts ==
                /\ addressToBytes(h.compact.sponsor) = sponsorBytes
                /\ h.chainId = chainId /\ h.compact.id = id
                /\ clock < h.compact.expires + getFinalizationThreshold(chainId)
                /\ h.hash \notin claims
         IN  (IF counts THEN h.compact.amount ELSE 0)
                + OutstandingSum(Tail(table), clock, sponsorBytes, chainId, id, claims)

\* max(0, balance - pending deltas) - outstanding local amounts, at the time of
\* the request's balance query
AllocatableRemaining(p) ==
    LET r == req[p]
        c == r.submission.compact
    IN  Max(0, indexer.balance - SumSeq(indexer.accountDeltas))
          - OutstandingSum(compacts, r.clocks.balance, addressToBytes(c.sponsor),
                           r.submission.chainId, c.id, r.claims)

AllocationRejected(p) == Rejected(p) /\ LastStage(req[p]) = "allocated"

\* C17: the allocation stage accepts exactly when
\* max(0, balance - pending) - outstanding >= amount.
C17_AllocationIff ==
    \A p \in Procs :
        /\ pc[p] = "store" => AllocatableRemaining(p) >= req[p].submission.compact.amount
        /\ AllocationRejected(p) =>
              AllocatableRemaining(p) < req[p].submission.compact.amount

\* a compact the snapshot alone would cover has been refused because of the
\* outstanding compacts in the store
C17_Witness ==
    \E p \in Procs :
        /\ AllocationRejected(p)
        /\ compacts # <<>>
        /\ req[p].submission.compact.amount
              <= Max(0, indexer.balance - SumSeq(indexer.accountDeltas))

\* C18: a request reaches the balance query only if the snapshot has the
\* lock, withdrawalStatus 0 and the allocator id of the compact's id; a refusal
\* by these checks names the first that fails, in that order, and a lock with
\* forced withdrawals enabled never leads to a stored compact.
C18_LockChecks ==
    /\ \A p \in Procs :
          LET r == req[p]
              c == r.submission.compact
          IN  /\ (pc[p] \in {"allocated", "store"} \/ "allocated" \in Range(r.stages)) =>
                    /\ indexer.resourceLock
                    /\ indexer.withdrawalStatus = 0
                    /\ indexer.allocatorId = IdAllocatorId(c.id)
              /\ (Rejected(p) /\ LastStage(r) = "indexer") =>
                    r.validation.error =
                        IF ~indexer.resourceLock THEN "Resource lock not found"
                        ELSE IF indexer.withdrawalStatus # 0
                        THEN "Resource lock has forced withdrawals enabled"
                        ELSE "Invalid allocator ID"
    /\ compacts # <<>> => (indexer.resourceLock /\ indexer.withdrawalStatus = 0)

\* with forced withdrawals enabled and a foreign allocator id, a compact the
\* balance would cover has been refused for the withdrawal status
C18_Witness ==
    \E p \in Procs :
        /\ Rejected(p)
        /\ indexer.withdrawalStatus # 0
        /\ indexer.allocatorId # IdAllocatorId(req[p].submission.compact.id)
        /\ req[p].submission.compact.amount <= indexer.balance
        /\ req[p].validation.error = "Resource lock has forced withdrawals enabled"

Expired(rec) ==
    now >= rec.compact.expires + getFinalizationThreshold(rec.chainId)

Finalised(rec) == rec.hash \in indexer.claims

\* what the balance query counts of one stored compact
CountedAmount(rec) ==
    getAllocatedBalance(<<rec>>, now, toLowerCase(getAddress(rec.compact.sponsor)),
                        rec.chainId, rec.compact.id, indexer.claims)

\* C19: a stored compact's amount is counted by the balance query exactly
\* while it is neither Expired nor Finalised, the query's total is the sum of
\* the outstanding amounts, and an Expired compact stays Expired.
C19_Lifecycle ==
    /\ [](\A i \in DOMAIN compacts :
            LET rec == compacts[i]
            IN  /\ CountedAmount(rec) =
                      IF ~Expired(rec) /\ ~Finalised(rec) THEN rec.compact.amount ELSE 0
                /\ getAllocatedBalance(compacts, now,
                                       toLowerCase(getAddress(rec.compact.sponsor)),
                                       rec.chainId, rec.compact.id, indexer.claims)
                      = OutstandingSum(compacts, now, addressToBytes(rec.compact.sponsor),
                                       rec.chainId, rec.compact.id, indexer.claims))
    /\ [][\A i \in DOMAIN compacts :
            Expired(compacts[i]) =>
                (i \in DOMAIN compacts' /\ CountedAmount(compacts[i])' = 0)]_vars

\* one stored compact has expired, another has been finalised before its
\* expiry, and the balance query counts neither
C19_Witness ==
    \E i, j \in DOMAIN compacts :
        /\ Expired(compacts[i]) /\ ~Finalised(compacts[i])
        /\ Finalised(compacts[j]) /\ ~Expired(compacts[j])
        /\ compacts[i].compact.amount > 0 /\ compacts[j].compact.amount > 0
        /\ CountedAmount(compacts[i]) = 0 /\ CountedAmount(compacts[j]) = 0

\* C20: a stored compact is hashed with the witness schema, over its witness
\* fields, exactly when both witness fields are non-null.
C20_WitnessSchema ==
    \A i \in DOMAIN compacts :
        LET c == compacts[i].compact
            h == compacts[i].hash
        IN  /\ h.schema = "CompactWithWitness" <=>
                  (c.witnessTypeString # Null /\ c.witnessHash # Null)
            /\ h.schema = "CompactWithWitness" =>
                  /\ h.witnessTypeString = c.witnessTypeString
                  /\ h.witnessHash = c.witnessHash

-----------------------------------------------------------------------------
(* Signature, store and listing *)

\* C21: the bytes signed for a stored compact are the claim hash itself,
\* with no message prefix.
C21_RawDigestSigned ==
    \A i \in DOMAIN compacts :
        SignedBytes(compacts[i].signature) = compacts[i].hash

\* the exchange of process p has been answered by the handler of the route
Answered(p, route) ==
    /\ http[p].route = route
    /\ http[p].phase = "replied"
    /\ http[p].by = "handler"

\* the handler of the route answers in this step
Answers(p, route) ==
    /\ http[p].route = route
    /\ http[p].phase = "handler"
    /\ http'[p].phase = "replied"

\* C22: after an admission has answered with hash h and a signature, the
\* lookup of (chainId, h) yields a record with the submitted compact, h and
\* that signature; a lookup answers with the stored record of its key when
\* there is one and with none when the key was never admitted.
C22_StoreRoundTrip ==
    /\ [](\A p \in Procs :
            Answered(p, "POST /compact") /\ http[p].status = 200 =>
                LET hits == getCompactByHash(compacts, http[p].body.chainId,
                                             http[p].result.hash)
                IN  /\ hits # <<>>
                    /\ hits[1].compact = http[p].body.compact
                    /\ hits[1].hash = http[p].result.hash
                    /\ hits[1].signature = http[p].result.signature)
    /\ [][\A p \in Procs :
            Answers(p, "GET /compact/:chainId/:claimHash") =>
                LET stored == {r \in Range(compacts) :
                                  /\ r.chainId = http[p].chainId
                                  /\ r.hash = http[p].claimHash}
                IN  IF stored = {}
                    THEN http'[p].status = 404 /\ http'[p].rows = <<>>
                    ELSE /\ http'[p].status = 200
                         /\ Len(http'[p].rows) = 1
                         /\ http'[p].rows[1] \in stored]_vars

\* a lookup has returned a stored compact, and one that was submitted with a
\* lower-case sponsor
C22_Witness ==
    /\ Answered(1, "GET /compact/:chainId/:claimHash")
    /\ http[1].status = 200
    /\ http[1].rows # <<>>
    /\ http[1].rows[1].compact.sponsor.form = "lower"
    /\ Len(compacts) = 2

\* C23: the store never holds two records of one (chainId, claimHash), and
\* the insert of a record whose (chainId, claimHash) is stored already fails
\* and leaves the store as it was.
C23_NoDuplicates ==
    /\ [](\A i, j \in DOMAIN compacts :
            compacts[i].chainId = compacts[j].chainId /\ compacts[i].hash = compacts[j].hash
                => i = j)
    /\ [][\A p \in Procs :
            (/\ pc[p] = "store"
             /\ pc'[p] = "done"
             /\ \E r \in Range(compacts) :
                    r.chainId = req[p].submission.chainId /\ r.hash = req[p].hash)
            => compacts' = compacts /\ ~req'[p].result.ok]_vars

\* an admission has failed on the stored record of its own key
C23_Witness ==
    \E p \in Procs :
        /\ Done(p)
        /\ req[p].result.error = "duplicate key value violates unique constraint"
        /\ \E r \in Range(compacts) :
              /\ r.chainId = req[p].submission.chainId
              /\ r.hash = generateClaimHash(req[p].submission.compact, r.chainId)

ListWithTie ==
    /\ Answered(1, "GET /compacts")
    /\ Len(http[1].rows) = 2
    /\ http[1].rows[1].createdAt = http[1].rows[2].createdAt

-----------------------------------------------------------------------------
(* Frame conditions *)

\* the request of process p ended in the indexer query, which failed
UpstreamFailed(p) ==
    /\ Done(p)
    /\ req[p].stages # <<>>
    /\ LastStage(req[p]) = "indexer"
    /\ ~indexer.reachable

\* C26: a request whose indexer query failed is not given a validation
\* result saying that the compact is invalid.
C26_UpstreamSurfaced ==
    \A p \in Procs : UpstreamFailed(p) => req[p].validation = NoValidation

\* C25: the compact store changes only in the insert that ends a successful
\* admission and the nonce ledger only in storeNonce; calls of generateNonce
\* and validateNonce, every step of validateCompact, hashing and signing,
\* and every step of a request that ends without success leave both as
\* they are.
C25_Frame ==
    [][/\ compacts' # compacts =>
             \E p \in Procs :
                 /\ pc[p] = "store" /\ pc'[p] = "done" /\ req'[p].result.ok
                 /\ Len(compacts') = Len(compacts) + 1
                 /\ SubSeq(compacts', 1, Len(compacts)) = compacts
       /\ nonces' # nonces => last'.op = "storeNonce" /\ compacts' = compacts
       /\ last' # last /\ last'.op \in {"generateNonce", "validateNonce"} =>
             nonces' = nonces /\ compacts' = compacts
       /\ \A p \in Procs :
             (\/ pc'[p] \notin {"idle", "done"}
              \/ pc'[p] = "done" /\ ~req'[p].result.ok)
             /\ req'[p] # req[p]
             => nonces' = nonces /\ compacts' = compacts]_vars

\* a request has been rejected by the balance comparison, after another
\* was stored and the nonce functions were called
C25_Witness ==
    \E p \in Procs :
        /\ Done(p) /\ ~req[p].result.ok
        /\ req[p].stages # <<>>
        /\ LastStage(req[p]) = "allocated"
        /\ compacts # <<>>
        /\ last.op = "validateNonce"
        /\ nonces # EmptyBag

-----------------------------------------------------------------------------
(* The layout of the compact id *)

\* the fields of an id when the index is bits 255..253 and the allocator id
\* the 93 bits below it
StatedLayout(id) ==
    CHOOSE f \in [index : 0..7, allocator : 0..(2 * AllocBase - 1), lock : 0..(LockBase - 1)] :
        id = (f.index * (2 * AllocBase) + f.allocator) * LockBase + f.lock

\* the fields of an id when bit 255 is spare, the index is bits 254..252 and
\* the allocator id the 92 bits below it
SpareBitLayout(id) ==
    CHOOSE f \in [spare : 0..1, index : 0..7, allocator : 0..(AllocBase - 1),
                  lock : 0..(LockBase - 1)] :
        id = ((f.spare * 8 + f.index) * AllocBase + f.allocator) * LockBase + f.lock

\* the verdicts of the reset-period check and of the allocator-id check on
\* the request of process p are those for the given index and allocator id
VerdictsFollow(p, index, allocator) ==
    LET r == req[p]
        c == r.submission.compact
        t == r.clocks.stages
        byIndex == ~(config.nodeEnv = "test" /\ c.id = 1)
    IN  /\ PassedDomain(p) /\ byIndex =>
              t + resetPeriods[index + 1] >= c.expires
        /\ ( /\ Rejected(p) /\ LastStage(r) = "domain"
             /\ r.validation.error =
                   "Reset period would allow forced withdrawal before expiration" ) =>
              t + resetPeriods[index + 1] < c.expires
        /\ (pc[p] # "idle" /\ "allocated" \in Range(r.stages)) =>
              indexer.allocatorId = allocator
        /\ ( /\ Rejected(p) /\ LastStage(r) = "indexer"
             /\ r.validation.error = "Invalid allocator ID" ) =>
              indexer.allocatorId # allocator

HasId(p) == pc[p] # "idle" /\ req[p].passes > 0

\* C27 as stated: the validator decides by the index in bits 255..253 and the
\* allocator id in bits 252..160 (93 bits) of the id.
C27_IdLayoutAsStated ==
    \A p \in Procs :
        HasId(p) =>
            LET f == StatedLayout(req[p].submission.compact.id)
            IN  VerdictsFollow(p, f.index, f.allocator)

\* C27 amended: the validator decides by the index in bits 254..252 and the
\* allocator id in bits 251..160 (92 bits) of the id; bit 255 belongs to
\* neither field and does not change a verdict.
C27_IdLayout ==
    \A p \in Procs :
        HasId(p) =>
            LET f == SpareBitLayout(req[p].submission.compact.id)
            IN  VerdictsFollow(p, f.index, f.allocator)

\* an id with bit 255 set has passed the reset-period check and the
\* allocator-id check, and another has failed the reset-period check
C27_Witness ==
    \E p \in Procs :
        /\ HasId(p)
        /\ req[p].submission.compact.id >= ScopeBase
        /\ "allocated" \in Range(req[p].stages)
        /\ SpareBitLayout(req[p].submission.compact.id).index = 4

-----------------------------------------------------------------------------
(* The numbers of the insufficient-balance error *)

\* what the request of process p had outstanding in the store at the time
\* of its balance query
Outstanding(p) ==
    LET r == req[p]
        c == r.submission.compact
    IN  OutstandingSum(compacts, r.clocks.balance, addressToBytes(c.sponsor),
                       r.submission.chainId, c.id, r.claims)

\* C28 as stated: on insufficient balance, have is the balance still
\* available for allocation and need is the amount of the new compact, in
\* every state of the store.
C28_HaveNeedAsStated ==
    \A p \in Procs :
        AllocationRejected(p) =>
            /\ req[p].have = AllocatableRemaining(p)
            /\ req[p].need = req[p].submission.compact.amount

\* C28 amended: have is max(0, balance - pending deltas), not reduced by what
\* the store has outstanding, and need is the outstanding amount plus the
\* amount of the new compact; with an empty store, balance 2 and amount 4
\* the error reports have 2 and need 4.
C28_HaveNeed ==
    \A p \in Procs :
        AllocationRejected(p) =>
            /\ req[p].have = Max(0, indexer.balance - SumSeq(indexer.accountDeltas))
            /\ req[p].need = Outstanding(p) + req[p].submission.compact.amount
            /\ ( /\ compacts = <<>> /\ indexer.balance = 2 /\ indexer.accountDeltas = <<>>
                 /\ req[p].submission.compact.amount = 4 ) =>
                  req[p].have = 2 /\ req[p].need = 4

\* a compact has been refused while another was outstanding, so that need
\* exceeds its amount
C28_Witness ==
    \E p \in Procs :
        /\ AllocationRejected(p)
        /\ Outstanding(p) > 0
        /\ req[p].need > req[p].submission.compact.amount

\* the example: empty store, balance 2, amount 4
ExampleRefused ==
    \E p \in Procs :
        /\ AllocationRejected(p)
        /\ compacts = <<>> /\ indexer.balance = 2
        /\ req[p].have = 2 /\ req[p].need = 4

-----------------------------------------------------------------------------
(* The session guard of the protected routes *)

\* the handler of the route has been entered for the exchange of process p
HandlerEntered(p) == http[p].phase = "handler" \/ http[p].by = "handler"

\* C29: the handler of a protected route is entered only for a request whose
\* x-session-id names an existing, unexpired session; a request whose
\* session id is missing, unknown or expired is answered 401 by the guard
\* and its handler is not entered.
C29_SessionGuard ==
    \A p \in Procs :
        /\ HandlerEntered(p) => http[p].sessionWas = "valid"
        /\ ( /\ http[p].phase = "replied"
             /\ http[p].sessionWas \in {"missing", "unknown", "expired"} ) =>
              /\ http[p].status = 401
              /\ http[p].by = "authenticateRequest"

\* the same where the name `server` resolves inside authenticateRequest
SessionGuardWhereBound == config.serverInScope => C29_SessionGuard

\* a request with an expired session id has been answered 401 and the
\* session row is gone
ExpiredRefused ==
    /\ http[1].phase = "replied" /\ http[1].sessionWas = "expired"
    /\ http[1].status = 401
    /\ \A s \in sessions : s.id # http[1].sessionId

-----------------------------------------------------------------------------
(* The nonce stage for a supplied nonce *)

\* the facts about the nonce of the last validateNonce call: its top bits
\* differ from the sponsor, its fragment is in the ledger of the chain and
\* sponsor, its fragment fits the columns of the ledger
NonceFacts ==
    LET n == last.nonce
    IN  [mismatch |-> NonceSponsorPart(n) # last.sponsor.who,
         used |-> \E r \in BagToSet(nonces) :
                     /\ r.chainId = last.chainId /\ r.sponsor = last.sponsor.who
                     /\ r.high = NonceHigh(n) /\ r.low = NonceLow(n),
         fits |-> NonceHigh(n) <= MaxHigh /\ NonceLow(n) <= MaxLow,
         zero |-> NonceSponsorPart(n) = 0 /\ last.sponsor.who # 0]

-----------------------------------------------------------------------------
(* The nonce functions over two chains and two sponsors: the first and the *)
(* last nonce of each sponsor                                              *)

ScopeNonces == {PackNonce(a, h[1], h[2]) : a \in Sponsors, h \in {<<0, 0>>, <<MaxHigh, MaxLow>>}}

ScopeAddresses == {Addr(1, "checksum"), Addr(2, "lower")}

NextScope ==
    \/ \E n \in ScopeNonces, c \in ChainIds : StoreNonce(n, c)
    \/ \E a \in ScopeAddresses, c \in ChainIds : GenerateNonce(a, c)
    \/ \E n \in ScopeNonces, a \in ScopeAddresses, c \in ChainIds : ValidateNonce(n, a, c)

SpecScope == InitNonce /\ [][NextScope]_vars

-----------------------------------------------------------------------------
(* Packing a nonce and splitting it again *)

\* the split of validateNonce and storeNonce: the first 20 bytes, then the
\* high and the low part of the fragment
SplitNonce(nonce) == <<NonceSponsorPart(nonce), NonceHigh(nonce), NonceLow(nonce)>>

\* the sponsors, highs and lows of the round trip: every 20-byte value in
\* use, and every high and low that the claim's range and the ledger's
\* columns both hold
RoundTripInputs == (Sponsors \cup {0}) \X (0..MaxHigh) \X (0..MaxLow)

\* C31: splitting the nonce packed from (a, h, l) gives back (a, h, l);
\* storeNonce of such a nonce puts the row (chain, a, h, l) into the ledger
\* unless it is there already, and a validateNonce of the same nonce for the
\* same chain and sponsor right after the storeNonce reports it as used.
C31_RoundTrip ==
    /\ [](\A t \in RoundTripInputs : SplitNonce(PackNonce(t[1], t[2], t[3])) = t)
    /\ [][\A t \in RoundTripInputs :
            LET n == PackNonce(t[1], t[2], t[3])
                row == NonceRow(last'.chainId, t[1], t[2], t[3])
            IN  /\ (last'.op = "storeNonce" /\ last'.nonce = n /\ last' # last) =>
                      /\ BagIn(row, nonces')
                      /\ nonces' = IF BagIn(row, nonces) THEN nonces
                                   ELSE nonces (+) SetToBag({row})
                /\ (/\ last.op = "storeNonce" /\ last.nonce = n
                    /\ last'.op = "validateNonce" /\ last'.nonce = n
                    /\ last'.chainId = last.chainId
                    /\ addressToBytes(last'.sponsor) = t[1]) =>
                      last'.result.validation = Invalid("Nonce has already been used")]_vars

\* a nonce with a non-zero high and low has been stored and then been
\* reported as used
C31_Witness ==
    /\ last.op = "validateNonce"
    /\ last.nonce = PackNonce(1, MaxHigh, MaxLow)
    /\ BagIn(NonceRow(last.chainId, 1, MaxHigh, MaxLow), nonces)
    /\ last.result.validation = Invalid("Nonce has already been used")

-----------------------------------------------------------------------------
(* validateStructure on its own: direct calls over compacts whose fields   *)
(* are well and ill formed in every combination                            *)

\* validateStructure(compact) called directly: the request record holds the
\* compact and the result
ValidateStructure(p, compact) ==
    LET r == Ran([IdleReq EXCEPT !.submission = Submission("1", compact)], "structure")
    IN  /\ pc[p] = "idle"
        /\ Goto(p, [r EXCEPT !.validation = validateStructure(compact)], "done")
        /\ UNCHANGED <<nonces, compacts, now, indexer, config, sessionRequests, creating, last, sessions, http>>

\* an amount that is not a string of digits is a negative number here;
\* the empty witness strings are present, not null
StructureCompacts ==
    [arbiter : {Addr(1, "checksum"), Addr(2, "lower"), Malformed},
     sponsor : {Addr(1, "checksum"), Malformed},
     nonce : {NoNonce},
     expires : {0 - 1, 0, 1, StartTime + 3600},
     id : {0 - 1, 0, 1, TheId},
     amount : {0 - 1, 0, 1},
     witnessTypeString : {Null, "", "T"},
     witnessHash : {Null, "", "H"}]

NextStructure ==
    \/ \E c \in StructureCompacts : ValidateStructure(1, c)
    \/ Return(1)

InitStructure == InitFrame /\ indexer = Snapshot(3, <<>>)

SpecStructure == InitStructure /\ [][NextStructure]_vars

\* a direct call of validateStructure has returned
StructureChecked(p) == Done(p) /\ req[p].stages = <<"structure">>

\* the conditions as the claim lists them
StructureOk(compact) ==
    /\ compact.arbiter.form \in {"checksum", "lower"}
    /\ compact.sponsor.form \in {"checksum", "lower"}
    /\ compact.expires > 0
    /\ compact.id > 0
    /\ compact.amount >= 0
    /\ (compact.witnessTypeString = Null) = (compact.witnessHash = Null)

ExactlyOneWitnessField(compact) ==
    (compact.witnessTypeString = Null) # (compact.witnessHash = Null)

\* C32: validateStructure accepts a compact exactly when arbiter and sponsor
\* decode as addresses, expires > 0, id > 0, the amount is a string of
\* decimal digits, and the witness fields are both null or both non-null; a
\* compact with exactly one witness field present is rejected.
C32_StructureIff ==
    \A p \in Procs :
        StructureChecked(p) =>
            LET c == req[p].submission.compact
            IN  /\ req[p].validation.isValid = StructureOk(c)
                /\ ExactlyOneWitnessField(c) => ~req[p].validation.isValid

\* a compact that is well formed but for a witness hash without a witness
\* type string has been rejected for that
C32_Witness ==
    \E p \in Procs :
        LET c == req[p].submission.compact
        IN  /\ StructureChecked(p)
            /\ c.witnessTypeString # Null /\ c.witnessHash = Null
            /\ StructureOk([c EXCEPT !.witnessHash = "H"])
            /\ req[p].validation =
                  Invalid("Witness type and hash must both be present or both be null")

-----------------------------------------------------------------------------
(* The id of the repository's test compact *)

\* (1 << 160) | (7 << 252)
ExampleId == 1 * LockBase + 7 * (AllocBase * LockBase)

\* the request carries the example id, expires an hour after it came in,
\* and the indexer reports allocator id 1
ExampleRequest(p) ==
    /\ pc[p] # "idle"
    /\ req[p].submission.compact.id = ExampleId
    /\ req[p].submission.compact.expires = req[p].clocks.start + 3600
    /\ indexer.allocatorId = 1

\* C33: the validator reads reset period index 7 (2,592,000 s) and allocator
\* id 1 from the id (7 << 252) | (1 << 160), so a compact with that id that
\* expires an hour from now is refused neither by the reset-period check
\* nor, with an indexer allocator id of 1, by the allocator-id check.
C33_ExampleId ==
    /\ IdResetPeriodIndex(ExampleId) = 7
    /\ resetPeriods[IdResetPeriodIndex(ExampleId) + 1] = 2592000
    /\ IdAllocatorId(ExampleId) = 1
    /\ \A p \in Procs :
          ExampleRequest(p) =>
              /\ req[p].validation.error \notin
                    {"Reset period would allow forced withdrawal before expiration",
                     "Invalid allocator ID"}
              /\ (Done(p) /\ req[p].stages # <<>>) =>
                    (LastStage(req[p]) = "domain" => ~Rejected(p))

\* such a compact has passed the domain stage and the checks on the
\* indexer's response
C33_Witness ==
    \E p \in Procs :
        /\ ExampleRequest(p)
        /\ pc[p] = "allocated"
        /\ req[p].stages = <<"chainId", "structure", "nonce", "expiration", "domain",
                             "indexer">>

-----------------------------------------------------------------------------
(* The order of validation, hashing, signing and storing *)

\* C34: a request holds a claim hash only after validateCompact found its
\* compact valid, having run every stage; it holds a signature only over the
\* hash it holds; a request whose compact failed validation never holds or
\* returns a signature; a record enters the store only from a request that
\* holds a valid compact, its hash and its signature, and a request returns
\* hash and signature only after the record is in the store.
C34_PipelineOrder ==
    /\ [](\A p \in Procs :
             LET r == req[p]
                 c == r.submission.compact
             IN  /\ r.hash # NoHash =>
                       /\ r.validation.isValid
                       /\ r.stages = StageOrder(c)
                       /\ r.hash = generateClaimHash(c, r.submission.chainId)
                 /\ r.signature # NoSignature =>
                       /\ r.hash # NoHash
                       /\ r.signature = signCompact(r.hash, r.submission.chainId)
                 /\ ~r.validation.isValid =>
                       /\ r.hash = NoHash /\ r.signature = NoSignature
                       /\ r.result.signature = NoSignature
                 /\ r.result.ok =>
                       /\ r.validation.isValid
                       /\ \E i \in DOMAIN compacts :
                             /\ compacts[i].hash = r.result.hash
                             /\ compacts[i].signature = r.result.signature)
    /\ [][compacts' # compacts =>
            \E p \in Procs :
                LET r == req[p]
                IN  /\ pc[p] = "store"
                    /\ r.validation.isValid
                    /\ r.stages = StageOrder(r.submission.compact)
                    /\ r.hash # NoHash /\ r.signature # NoSignature
                    /\ compacts' = Append(compacts,
                          CompactRecord(r.submission.chainId, r.submission.compact,
                                        r.hash, r.signature, now))]_vars

\* one compact has gone through all stages and is stored with its
\* signature, and another has been refused by the last validation stage
\* without a signature
C34_Witness ==
    \E p \in Procs :
        /\ Rejected(p)
        /\ req[p].stages = StageOrder(req[p].submission.compact)
        /\ req[p].result.signature = NoSignature
        /\ compacts # <<>>
        /\ compacts[1].signature # NoSignature

-----------------------------------------------------------------------------
(* Session creation by two clients: one tries payloads and signatures of  *)
(* every kind, the other presents the well-formed, well-signed payload     *)

\* the payload of the open session request of sponsor 1
GoodPayload ==
    SessionPayload(ServerDomain, Addr(1, "checksum"), BaseUrl, "Sign in to Smallocator",
                   1, "n1", StartTime, StartTime + 3600)

\* an open request of sponsor 1, and a request of sponsor 2 that has been
\* used
SessionRequestsAtStart ==
    {SessionRequest("n1", ServerDomain, 1, Addr(1, "checksum"), StartTime,
                    StartTime + 3600, FALSE),
     SessionRequest("n2", ServerDomain, 1, Addr(2, "checksum"), StartTime,
                    StartTime + 3600 + 3700, TRUE)}

\* the good payload, and payloads that differ from it in one field
SessionPayloads ==
    LET g == GoodPayload
    IN  {g,
         [g EXCEPT !.domain = "evil.example"],
         [g EXCEPT !.uri = "https://evil.example"],
         [g EXCEPT !.statement = "Sign in"],
         [g EXCEPT !.chainId = 0],
         [g EXCEPT !.chainId = 10],
         [g EXCEPT !.address = Malformed],
         [g EXCEPT !.address = Addr(1, "lower")],
         [g EXCEPT !.nonce = "n9"],
         [g EXCEPT !.nonce = "n2", !.address = Addr(2, "checksum"),
                   !.expirationTime = StartTime + 3600 + 3700],
         [g EXCEPT !.issuedAt = StartTime + 1],
         [g EXCEPT !.expirationTime = StartTime + 7200]}

\* signatures for a payload: by the payload's address, by another key, by
\* the payload's address over another message, and one without the 0x
SessionSignatures(payload) ==
    {Signature("0x", payload.address.who, formatMessage(payload)),
     Signature("0x", 3 - payload.address.who, formatMessage(payload)),
     Signature("0x", payload.address.who,
               formatMessage([payload EXCEPT !.statement = "Pay"])),
     Signature("", payload.address.who, formatMessage(payload))}

InitSession ==
    /\ nonces = EmptyBag
    /\ compacts = <<>>
    /\ now = StartTime
    /\ indexer = Snapshot(3, <<>>)
    /\ config = [nodeEnv |-> "production"]
    /\ pc = [p \in Procs |-> "idle"]
    /\ req = [p \in Procs |-> IdleReq]
    /\ last = NoCall
    /\ sessions = {}
    /\ http = [p \in Procs |-> NoExchange]
    /\ sessionRequests = SessionRequestsAtStart
    /\ creating = [p \in Procs |-> NoCreation]

NextSession ==
    \/ \E payload \in SessionPayloads : \E signature \in SessionSignatures(payload) :
          CreateSession(1, signature, payload)
    \/ CreateSession(2, Signature("0x", 1, formatMessage(GoodPayload)), GoodPayload)
    \/ \E p \in {1, 2} : CreationStep(p)
    \/ Tick

SpecSession == InitSession /\ [][NextSession]_vars


\* what a call that created a session has seen: a well-formed payload, a
\* request row with the payload's nonce, domain, chain id and address that
\* was unused and unexpired when it was read, with the payload's
\* timestamps, and a signature of the payload's message by its address
CreationJustified(c) ==
    /\ isValidPayload(c.payload, c.enteredAt)
    /\ c.request.nonce = c.payload.nonce /\ c.request.domain = c.payload.domain
    /\ c.request.chainId = c.payload.chainId /\ c.request.address = c.payload.address
    /\ ~c.request.used
    /\ c.request.expirationTime > c.selectedAt
    /\ c.request.issuedAt = c.payload.issuedAt
    /\ c.request.expirationTime = c.payload.expirationTime
    /\ c.signature.format = "0x"
    /\ c.signature.signer = c.payload.address.who
    /\ c.signature.message = formatMessage(c.payload)

SessionsFrom(r) ==
    {s \in sessions : s.nonce = r.nonce /\ s.domain = r.domain /\ s.address = r.address}

\* C37: whatever the interleaving of validateAndCreateSession calls that
\* present the same signed payload, at most one session is created from one
\* session request.
C37_SingleUse ==
    \A r \in sessionRequests : Cardinality(SessionsFrom(r)) <= 1

-----------------------------------------------------------------------------
(* Expiry of a session *)

\* the guard calls verifySession for the session id of process p in this step
Verifies(p) ==
    /\ http[p].phase = "preHandler"
    /\ http'[p].phase # "preHandler"
    /\ http'[p].verified # "not called"

SessionRows(id) == {s \in sessions : s.id = id}

\* C36: verifySession returns true only for a session whose row exists with
\* now <= expiresAt; a verification with now > expiresAt deletes the row and
\* throws the expired-session error; a verification of an id whose row is
\* gone throws the unknown-session error; rows are only ever removed and
\* the clock never goes back, so an expired session never passes again.
C36_SessionExpiry ==
    /\ [][\A p \in Procs :
            Verifies(p) =>
                LET id == http[p].sessionId
                    rows == SessionRows(id)
                    v == http'[p].verified
                IN  /\ v = "returned true" <=> \E s \in rows : now <= s.expiresAt
                    /\ (\E s \in rows : now > s.expiresAt) =>
                          /\ v = "Session has expired"
                          /\ sessions' = sessions \ rows
                    /\ rows = {} => v = "Invalid session ID"
                    /\ v # "returned true" =>
                          /\ http'[p].phase = "replied"
                          /\ http'[p].status = 401]_vars
    /\ [][/\ sessions' \subseteq sessions
          /\ now' >= now
          /\ sessions' # sessions => \E p \in Procs : Verifies(p)]_vars
    /\ [](\A p \in Procs :
             http[p].phase = "handler" => http[p].verified = "returned true")

\* the session of sponsor 1 has expired and been deleted, and a later
\* request with its id has been refused as an unknown session
C36_Witness ==
    \E p \in Procs :
        /\ http[p].sessionId = "s1"
        /\ http[p].verified = "Invalid session ID"
        /\ now > StartTime + 3600
        /\ http[p].status = 401

\* a session is still accepted at the instant of its expiry
AcceptedAtExpiry ==
    \E p \in Procs : \E s \in sessions :
        /\ http[p].sessionId = s.id
        /\ http[p].verified = "returned true"
        /\ http[p].phase = "handler"
        /\ now = s.expiresAt

-----------------------------------------------------------------------------
(* Completeness of the list of a sponsor's compacts *)

\* C38: every stored compact whose sponsor is the address of a session, in
\* whichever spelling it was submitted, is in the list getCompactsByAddress
\* gives for the session's address.
C38_ListingComplete ==
    \A s \in RoutesSessions : \A r \in Range(compacts) :
        addressToBytes(r.compact.sponsor) = addressToBytes(s.address) =>
            \A q \in getCompactsByAddress(compacts, s.address) : r \in Range(q)

-----------------------------------------------------------------------------
(* What a session can read *)

\* the stored records whose sponsor is the address
OwnCompacts(address) ==
    SelectSeq(compacts,
              LAMBDA r : addressToBytes(r.compact.sponsor) = addressToBytes(address))

\* the route answers process p with records in this step, all of them of
\* the sponsor of p's session, and the answer is the one the route gives
\* when the store holds that sponsor's records only
AnswersOwn(p, route) ==
    (Answers(p, route) /\ http'[p].status = 200) =>
        \E s \in sessions :
            /\ s.id = http[p].sessionId
            /\ \A i \in DOMAIN http'[p].rows :
                  addressToBytes(http'[p].rows[i].compact.sponsor)
                      = addressToBytes(s.address)
            /\ IF route = "GET /compacts"
               THEN http'[p].rows \in getCompactsByAddress(OwnCompacts(s.address), s.address)
               ELSE http'[p].rows = getCompactByHash(OwnCompacts(s.address),
                                                     http[p].chainId, http[p].claimHash)

ListReadIsolation ==
    [][\A p \in Procs : AnswersOwn(p, "GET /compacts")]_vars

-----------------------------------------------------------------------------
(* The scope of a stored nonce *)

\* generateNonce and validateNonce give the same for the chain and the
\* sponsor on the ledger before and after the step
SameAnswers(chainId, sponsor) ==
    /\ generateNonce(nonces', sponsor, chainId) = generateNonce(nonces, sponsor, chainId)
    /\ \A n \in NonceInputs \cup ScopeNonces :
          validateNonce(nonces', n, sponsor, chainId)
              = validateNonce(nonces, n, sponsor, chainId)

\* C40: when storeNonce stores a nonce for a chain and a sponsor, the results
\* of generateNonce and validateNonce for every other chain and for every
\* other sponsor are what they were before.
C40_NonceScope ==
    [][nonces' # nonces =>
          \A chainId \in ChainIds : \A sponsor \in Address :
              (chainId # last'.chainId
                  \/ addressToBytes(sponsor) # NonceSponsorPart(last'.nonce)) =>
                    SameAnswers(chainId, sponsor)]_vars

\* the first nonce of sponsor 1 is stored on chain 1 and has been found
\* unused on chain 10
C40_Witness ==
    /\ BagIn(NonceRow("1", 1, 0, 0), nonces)
    /\ ~BagIn(NonceRow("10", 1, 0, 0), nonces)
    /\ last.op = "validateNonce"
    /\ last.chainId = "10"
    /\ last.nonce = PackNonce(1, 0, 0)
    /\ last.result.validation = Valid

=============================================================================
